---- MODULE Spec2Model ----
(***************************************************************************)
(* State-machine model of the audio engine core of loopback-visualizer:    *)
(* the lock-free SPSC AudioRingBuffer and the capture session built on it. *)
(*                                                                         *)
(* Specifications:                                                         *)
(*   Spec      one thread calling the ring-buffer operations, each call    *)
(*             one atomic action (sequential semantics)                    *)
(*   SpecSPSC  one producer thread and one consumer thread; every load or  *)
(*             store of a cursor and every slot access is its own step     *)
(*   SpecTest  the producer/consumer loops of the thread-safety test, with *)
(*             weak fairness of both threads                               *)
(*   SpecCap   a capture session: controller/consumer thread and the       *)
(*             capture thread spawned by start()                           *)
(***************************************************************************)
EXTENDS Integers, Sequences, FiniteSets, TLC

(***************************************************************************)
(* Bounds of the model                                                     *)
(***************************************************************************)
\* log2 of the ring buffer's Capacity template argument (Capacity = 4)
CapacityBits == 2
\* number of bits of size_t kept by the model (the build has 64); cursor
\* arithmetic is done modulo 2^SizeBits and then masked
SizeBits == 6
\* number of distinct items the producer offers in one run
MaxItems == 10
\* largest count passed to write_bulk / read_bulk / peek_bulk
MaxCount == 3

\* number of start() calls that spawn a capture thread in one run
MaxStarts == 2
\* number of packets the backend hands to the capture thread in one run
MaxPackets == 1
\* stereo frames per packet (BUFFER_SIZE of capture_loop, 64 in the build)
PacketFrames == 2
\* read_samples is called while underruns_ is below this
MaxUnderruns == 1
\* largest count passed to read_samples
MaxRead == 2

Capacity == 2 ^ CapacityBits
SizeMod == 2 ^ SizeBits

Min(a, b) == IF a < b THEN a ELSE b

(***************************************************************************)
(* size_t arithmetic                                                       *)
(***************************************************************************)
USub(a, b) == (a - b) % SizeMod
UAdd(a, b) == (a + b) % SizeMod

RECURSIVE BitAnd(_, _)
BitAnd(a, b) ==
    IF a = 0 \/ b = 0 THEN 0
    ELSE (a % 2) * (b % 2) + 2 * BitAnd(a \div 2, b \div 2)

\* static constexpr size_t mask_ = Capacity - 1
mask_ == Capacity - 1

(***************************************************************************)
(* Slot contents.  Items are the serial numbers 1..MaxItems.  A slot that  *)
(* was never written holds an indeterminate value, and a slot whose write  *)
(* is in progress holds a torn value; both differ from every item.         *)
(***************************************************************************)
Indeterminate == 0
Torn(item) == 0 - item
Items == 1 .. MaxItems
Index == 0 .. (Capacity - 1)

\* the items offered next: serial numbers following the accepted ones
Serial(from, count) == [k \in 1 .. count |-> from + k]

\* std::copy_n(src + srcOff, n, &dst[dstOff]) into the backing array
CopyIn(src, srcOff, n, dst, dstOff) ==
    [i \in DOMAIN dst |->
        IF dstOff <= i /\ i < dstOff + n THEN src[srcOff + (i - dstOff) + 1]
        ELSE dst[i]]

\* std::copy_n(&buf[from], n, out): the n elements buf[from .. from+n-1]
CopyOut(buf, from, n) == [k \in 1 .. n |-> buf[from + k - 1]]

(***************************************************************************)
(* AudioRingBuffer<T, Capacity>: the operations as functions of the buffer *)
(* b = [write_pos, read_pos, buffer_]                                      *)
(***************************************************************************)
NewRing ==
    [write_pos |-> 0, read_pos |-> 0, buffer_ |-> [i \in Index |-> Indeterminate]]

NextPos(pos) == BitAnd(UAdd(pos, 1), mask_)

NeverFull(next_write, read) == FALSE
FullTestInverted(next_write, read) == next_write /= read
\* try_write's test "next_write == read_pos": the buffer is full
IsFull(next_write, read) == next_write = read

try_write(b, item) ==
    LET write == b.write_pos
        next_write == NextPos(write)
    IN  IF IsFull(next_write, b.read_pos)
        THEN [rb |-> b, ret |-> FALSE]
        ELSE [rb |-> [b EXCEPT !.buffer_[write] = item, !.write_pos = next_write],
              ret |-> TRUE]

WriteAvailableOffByOne(write, read) == BitAnd(USub(read, write), mask_)
\* (read - write - 1) & mask_
WriteAvailable(write, read) == BitAnd(USub(USub(read, write), 1), mask_)

\* (write - read) & mask_
ReadAvailable(write, read) == BitAnd(USub(write, read), mask_)

FirstChunkNoWrap(n, pos) == n
\* std::min(n, Capacity - pos): the part of a range that ends before the
\* end of the backing array
FirstChunk(n, pos) == Min(n, Capacity - pos)

write_bulk(b, items, count) ==
    LET write == b.write_pos
        read == b.read_pos
        available == WriteAvailable(write, read)
        to_write == Min(count, available)
        first_chunk == FirstChunk(to_write, write)
        buf1 == CopyIn(items, 0, first_chunk, b.buffer_, write)
        buf2 == IF first_chunk < to_write
                THEN CopyIn(items, first_chunk, to_write - first_chunk, buf1, 0)
                ELSE buf1
    IN  IF to_write = 0 THEN [rb |-> b, ret |-> 0]
        ELSE [rb |-> [b EXCEPT !.buffer_ = buf2,
                               !.write_pos = BitAnd(UAdd(write, to_write), mask_)],
              ret |-> to_write]

try_read(b) ==
    LET read == b.read_pos
    IN  IF read = b.write_pos
        THEN [rb |-> b, some |-> FALSE, item |-> Indeterminate]
        ELSE [rb |-> [b EXCEPT !.read_pos = NextPos(read)],
              some |-> TRUE, item |-> b.buffer_[read]]

read_bulk(b, count) ==
    LET read == b.read_pos
        write == b.write_pos
        available == ReadAvailable(write, read)
        to_read == Min(count, available)
        first_chunk == FirstChunk(to_read, read)
        out1 == CopyOut(b.buffer_, read, first_chunk)
        out2 == IF first_chunk < to_read
                THEN out1 \o CopyOut(b.buffer_, 0, to_read - first_chunk)
                ELSE out1
    IN  IF to_read = 0 THEN [rb |-> b, ret |-> 0, items |-> << >>]
        ELSE [rb |-> [b EXCEPT !.read_pos = BitAnd(UAdd(read, to_read), mask_)],
              ret |-> to_read, items |-> out2]

\* a peek that consumes what it returns
PeekConsumes(b, count, offset) == read_bulk(b, count)

PeekFromRead(read, offset) == read
\* (read + offset) & mask_
PeekFrom(read, offset) == BitAnd(UAdd(read, offset), mask_)

peek_bulk(b, count, offset) ==
    LET read == b.read_pos
        write == b.write_pos
        available == ReadAvailable(write, read)
        from_pos == PeekFrom(read, offset)
        to_read == Min(count, available - offset)
        first_chunk == FirstChunk(to_read, from_pos)
        out1 == CopyOut(b.buffer_, from_pos, first_chunk)
        out2 == IF first_chunk < to_read
                THEN out1 \o CopyOut(b.buffer_, 0, to_read - first_chunk)
                ELSE out1
    IN  IF offset >= available THEN [rb |-> b, ret |-> 0, items |-> << >>]
        ELSE IF to_read = 0 THEN [rb |-> b, ret |-> 0, items |-> << >>]
        ELSE [rb |-> b, ret |-> to_read, items |-> out2]

available_read(b) == ReadAvailable(b.write_pos, b.read_pos)
available_write(b) == WriteAvailable(b.write_pos, b.read_pos)
empty(b) == b.read_pos = b.write_pos
full(b) == NextPos(b.write_pos) = b.read_pos

(***************************************************************************)
(* PhaseLockAnalyzer.  float values are fixed-point numbers: samples are   *)
(* whole numbers; reference values, correlations, phase_smoothing,         *)
(* correlation_threshold and ema_alpha_ are counted in hundredths.         *)
(***************************************************************************)
\* fixed-point unit of the float values: 1.0f
One == 100

\* const size_t SEARCH_RANGE (1024 in the build)
SEARCH_RANGE == 8
\* the coarse search's step: offset += 4
COARSE_STEP == 4
\* the fine search's reach: fine_offset = -2 .. 2
FINE_REACH == 2
\* frames without a good match after which the reference is dropped (480
\* in the build)
NO_MATCH_FRAMES == 2
\* static constexpr size_t max_history_ (240 in the build)
max_history_ == 2
\* Config::display_samples of the configurations analysed
DisplaySamples == 2
\* Config::accumulator_reset_count of the configurations analysed
ResetCount == 1
\* analyze(true) is called while frames_since_reference_ is below this
MaxFrames == 3
\* add_samples is called while fewer samples than this have been added
MaxAdded == 4
\* set_config is called at most this often
MaxSetConfigs == 1

Abs(x) == IF x < 0 THEN 0 - x ELSE x

\* (int) of the quotient n / d: truncation toward zero
Trunc(n, d) == IF n >= 0 THEN n \div d ELSE 0 - ((0 - n) \div d)

\* the integer part of the square root of n, 0 <= n <= One * One
ISqrtTable ==
    [n \in 0 .. One * One |->
        CHOOSE k \in 0 .. One : k * k <= n /\ (k + 1) * (k + 1) > n]
ISqrt(n) == ISqrtTable[n]

\* f[0] + ... + f[n-1]
RECURSIVE Sum(_, _)
Sum(f, n) == IF n = 0 THEN 0 ELSE f[n - 1] + Sum(f, n - 1)

\* the configurations analysed: Config with use_frequency_filter == false
\* (its default); phase_buffer_size 2 is smaller than every window
PLAConfigs ==
    [phase_smoothing : {0, 50},
     correlation_threshold : {45},
     correlation_window_size : {2, 3},
     phase_buffer_size : {2, 16},
     display_samples : {DisplaySamples},
     use_frequency_filter : {FALSE},
     reference_mode : {"ACCUMULATOR", "EMA"},
     accumulator_reset_count : {ResetCount}]

\* the configuration of the analyzer that the ring-buffer and capture
\* specifications leave alone
SomePLAConfig ==
    [phase_smoothing |-> 0, correlation_threshold |-> 45,
     correlation_window_size |-> 2, phase_buffer_size |-> 16,
     display_samples |-> DisplaySamples, use_frequency_filter |-> FALSE,
     reference_mode |-> "ACCUMULATOR", accumulator_reset_count |-> ResetCount]

\* new float[n](): n zeros
Zeros(n) == [i \in 0 .. (n - 1) |-> 0]

\* PhaseLockAnalyzer(config): the members after construction
PhaseLockAnalyzer(config) ==
    [config_ |-> config,
     phase_buffer_ |-> Zeros(config.phase_buffer_size),
     phase_write_pos_ |-> 0,
     reference_window_ |-> Zeros(config.correlation_window_size),
     reference_count_ |-> 0,
     has_reference_ |-> FALSE,
     phase_offset_ |-> 0,
     target_phase_offset_ |-> 0,
     frames_since_reference_ |-> 0,
     frames_since_good_match_ |-> 0,
     last_best_correlation_ |-> 0,
     ema_alpha_ |-> 10,
     correlation_history_ |-> << >>]

\* add_samples(samples, count)
RECURSIVE add_samples(_, _)
add_samples(a, samples) ==
    IF samples = << >> THEN a
    ELSE add_samples(
            [a EXCEPT !.phase_buffer_[a.phase_write_pos_] = Head(samples),
                      !.phase_write_pos_ =
                          (a.phase_write_pos_ + 1) % a.config_.phase_buffer_size],
            Tail(samples))

\* the segment of correlation_window_size samples of the phase buffer that
\* starts at index start (mod phase_buffer_size)
Segment(a, start) ==
    [i \in 0 .. (a.config_.correlation_window_size - 1) |->
        a.phase_buffer_[(start + i) % a.config_.phase_buffer_size]]

\* correlation / sqrtf(sig_energy * ref_energy), in hundredths
Normalized(correlation, sig_energy, ref_energy) ==
    LET q == ISqrt((One * One * correlation * correlation)
                       \div (sig_energy * ref_energy))
    IN  IF correlation < 0 THEN 0 - q ELSE q

\* a correlation that ignores the energies: always 1.0
FullCorrelation(a, offset, search_start) == One

\* compute_correlation(offset, search_start)
compute_correlation(a, offset, search_start) ==
    LET W == a.config_.correlation_window_size
        sig == Segment(a, search_start + offset)
        ref == a.reference_window_
        correlation == Sum([i \in 0 .. (W - 1) |-> sig[i] * ref[i]], W)
        sig_energy == Sum([i \in 0 .. (W - 1) |-> sig[i] * sig[i]], W)
        ref_energy == Sum([i \in 0 .. (W - 1) |-> ref[i] * ref[i]], W)
    IN  IF sig_energy > 0 /\ ref_energy > 0
        THEN Normalized(correlation, sig_energy, ref_energy)
        ELSE 0

\* update_reference_window(): the newest correlation_window_size samples
\* become the reference
update_reference_window(a) ==
    LET ref_start == USub(UAdd(a.phase_write_pos_, a.config_.phase_buffer_size),
                          a.config_.correlation_window_size)
                         % a.config_.phase_buffer_size
    IN  [a EXCEPT !.reference_window_ =
                      [i \in DOMAIN Segment(a, ref_start) |->
                          One * Segment(a, ref_start)[i]],
                  !.has_reference_ = TRUE,
                  !.frames_since_reference_ = 0]

\* search_start: (phase_write_pos_ + phase_buffer_size - display_samples -
\* SEARCH_RANGE) % phase_buffer_size, in size_t arithmetic
SearchStart(a) ==
    USub(USub(UAdd(a.phase_write_pos_, a.config_.phase_buffer_size),
              a.config_.display_samples),
         SEARCH_RANGE) % a.config_.phase_buffer_size

WriteWindow(a) == a.phase_write_pos_
\* the most recent window: (phase_write_pos_ + phase_buffer_size -
\* display_samples) % phase_buffer_size
RecentWindow(a) ==
    USub(UAdd(a.phase_write_pos_, a.config_.phase_buffer_size),
         a.config_.display_samples) % a.config_.phase_buffer_size

\* the coarse search from offset on; found = [max_correlation, best_offset]
RECURSIVE CoarseSearch(_, _, _, _)
CoarseSearch(a, search_start, offset, found) ==
    IF offset >= SEARCH_RANGE THEN found
    ELSE LET correlation == compute_correlation(a, offset, search_start)
         IN  CoarseSearch(a, search_start, offset + COARSE_STEP,
                 IF correlation > found.max_correlation
                 THEN [max_correlation |-> correlation, best_offset |-> offset]
                 ELSE found)

\* the fine search from fine_offset on: offset = best_offset + fine_offset
\* with the best_offset of the moment
RECURSIVE FineSearch(_, _, _, _)
FineSearch(a, search_start, fine_offset, found) ==
    IF fine_offset > FINE_REACH THEN found
    ELSE LET offset == found.best_offset + fine_offset
             correlation == compute_correlation(a, offset, search_start)
         IN  FineSearch(a, search_start, fine_offset + 1,
                 IF correlation > found.max_correlation
                 THEN [max_correlation |-> correlation, best_offset |-> offset]
                 ELSE found)

\* "Find best correlation offset": coarse search, then the fine search
\* around a best offset that is not at the edge of the range
FindBest(a) ==
    LET search_start == SearchStart(a)
        coarse == CoarseSearch(a, search_start, 0,
                      [max_correlation |-> 0 - One, best_offset |-> 0])
    IN  IF coarse.best_offset > FINE_REACH
           /\ coarse.best_offset < SEARCH_RANGE - FINE_REACH
        THEN FineSearch(a, search_start, 0 - FINE_REACH, coarse)
        ELSE coarse

AboveZero(max_correlation, threshold) == max_correlation > 0
\* max_correlation > config_.correlation_threshold
AboveThreshold(max_correlation, threshold) == max_correlation > threshold

\* "a good match that's different from last time": above the threshold and
\* more than 0.01 away from the previous best correlation
GoodMatch(a, max_correlation) ==
    /\ AboveThreshold(max_correlation, a.config_.correlation_threshold)
    /\ Abs(max_correlation - a.last_best_correlation_) > 1

\* the reference after a good match at match_start: the matching segment
\* itself for the first match, afterwards
\* (1 - ema_alpha_) * reference_window_[i] + ema_alpha_ * new_sample
BlendReference(a, match_start) ==
    LET new == Segment(a, match_start)
    IN  IF a.reference_count_ = 0
        THEN [a EXCEPT !.reference_window_ = [i \in DOMAIN new |-> One * new[i]],
                       !.reference_count_ = 1,
                       !.has_reference_ = TRUE,
                       !.frames_since_good_match_ = 0]
        ELSE [a EXCEPT !.reference_window_ =
                           [i \in DOMAIN new |->
                               Trunc((One - a.ema_alpha_) * a.reference_window_[i]
                                         + a.ema_alpha_ * One * new[i], One)],
                       !.reference_count_ = @ + 1,
                       !.frames_since_good_match_ = 0]

NeverExpires(frames) == FALSE
\* frames_since_good_match_ > 480
Expired(frames) == frames > NO_MATCH_FRAMES

\* no good match: count the frame and drop the reference once the count
\* has expired
NoMatch(a) ==
    LET frames == a.frames_since_good_match_ + 1
    IN  IF Expired(frames) /\ a.has_reference_
        THEN [a EXCEPT !.has_reference_ = FALSE,
                       !.reference_count_ = 0,
                       !.frames_since_good_match_ = 0]
        ELSE [a EXCEPT !.frames_since_good_match_ = frames]

\* a full history that keeps its oldest entry and refuses the new one
KeepOldest(history, x) ==
    IF Len(history) >= max_history_ THEN history ELSE Append(history, x)

\* correlation_history_.push_back(x), pop_front() beyond max_history_
PushHistory(history, x) ==
    LET pushed == Append(history, x)
    IN  IF Len(pushed) > max_history_ THEN Tail(pushed) ELSE pushed

\* the cursor target: the matched offset with a lock, the most recent
\* window without
Target(a, found) ==
    IF AboveThreshold(found.max_correlation, a.config_.correlation_threshold)
    THEN (SearchStart(a) + found.best_offset) % a.config_.phase_buffer_size
    ELSE RecentWindow(a)

\* the phase difference target - offset brought into
\* -phase_buffer_size/2 .. phase_buffer_size/2
PhaseDiff(target, offset, size) ==
    LET phase_diff == target - offset
    IN  IF phase_diff > size \div 2 THEN phase_diff - size
        ELSE IF phase_diff < 0 - (size \div 2) THEN phase_diff + size
        ELSE phase_diff

\* (int)(phase_diff * (1.0f - phase_smoothing))
SmoothDiff(phase_diff, smoothing) == Trunc(phase_diff * (One - smoothing), One)

\* the cursor moved toward target by the smoothed phase difference
SmoothStep(offset, target, c) ==
    ((offset + SmoothDiff(PhaseDiff(target, offset, c.phase_buffer_size),
                         c.phase_smoothing)
            + c.phase_buffer_size) % SizeMod) % c.phase_buffer_size

\* analyze's test "phase_offset_ == 0": jump directly to the target
JumpToTarget(offset) == offset = 0

\* "Smoothly interpolate to the target phase offset"
MoveCursor(a) ==
    IF JumpToTarget(a.phase_offset_)
    THEN [a EXCEPT !.phase_offset_ = a.target_phase_offset_]
    ELSE [a EXCEPT !.phase_offset_ =
                       SmoothStep(a.phase_offset_, a.target_phase_offset_,
                                  a.config_)]

\* State{best_correlation, has_lock, read_position}
State(best_correlation, has_lock, read_position) ==
    [best_correlation |-> best_correlation, has_lock |-> has_lock,
     read_position |-> read_position]

\* analyze(false): [a |-> the members afterwards, state |-> the result]
analyze_disabled(a) ==
    [a |-> [a EXCEPT !.has_reference_ = FALSE,
                     !.phase_offset_ = 0,
                     !.correlation_history_ = << >>],
     state |-> State(0, FALSE, RecentWindow(a))]

\* analyze(true): [a |-> the members afterwards, state |-> the result]
analyze_enabled(a) ==
    LET seeded == IF a.has_reference_ THEN a ELSE update_reference_window(a)
        a1 == [seeded EXCEPT !.frames_since_reference_ = @ + 1]
        found == FindBest(a1)
        max_correlation == found.max_correlation
        match_start == (SearchStart(a1) + found.best_offset)
                           % a1.config_.phase_buffer_size
        a2 == IF GoodMatch(a1, max_correlation)
              THEN BlendReference(a1, match_start)
              ELSE NoMatch(a1)
        a3 == [a2 EXCEPT !.last_best_correlation_ = max_correlation,
                         !.correlation_history_ = PushHistory(@, max_correlation),
                         !.target_phase_offset_ = Target(a1, found)]
        a4 == MoveCursor(a3)
    IN  [a |-> a4,
         state |-> State(max_correlation,
                         AboveThreshold(max_correlation,
                                        a1.config_.correlation_threshold),
                         a4.phase_offset_)]

\* analyze(phase_lock_enabled)
analyze(a, phase_lock_enabled) ==
    IF phase_lock_enabled THEN analyze_enabled(a) ELSE analyze_disabled(a)

\* reset(): std::memset(phase_buffer_, 0, config_.phase_buffer_size *
\* sizeof(float)) zeroes that many elements of the buffer
reset(a) ==
    [a EXCEPT !.phase_buffer_ =
                  [i \in DOMAIN @ |->
                      IF i < a.config_.phase_buffer_size THEN 0 ELSE @[i]],
              !.phase_write_pos_ = 0,
              !.has_reference_ = FALSE,
              !.reference_count_ = 0,
              !.phase_offset_ = 0,
              !.target_phase_offset_ = 0,
              !.frames_since_reference_ = 0,
              !.frames_since_good_match_ = 0,
              !.last_best_correlation_ = 0,
              !.correlation_history_ = << >>]

\* set_config's reset() runs before config_ = config, with the old
\* phase_buffer_size on the new buffer: the memset writes past the end of a
\* smaller new buffer
ResetOverflows(a, config) ==
    config.phase_buffer_size < a.config_.phase_buffer_size

KeepReference(a) == a
\* set_config: "has_reference_ = false; reference_count_ = 0"
DropReference(a) == [a EXCEPT !.has_reference_ = FALSE, !.reference_count_ = 0]

\* set_config(config), use_frequency_filter false before and after.  The
\* new reference_window_ is not initialised; nothing reads it before
\* update_reference_window has written it.
set_config(a, config) ==
    LET a1 == IF config.phase_buffer_size /= a.config_.phase_buffer_size
              THEN reset([a EXCEPT !.phase_buffer_ =
                                       Zeros(config.phase_buffer_size)])
              ELSE a
        a2 == IF config.correlation_window_size
                    /= a.config_.correlation_window_size
              THEN DropReference(
                       [a1 EXCEPT !.reference_window_ =
                                      Zeros(config.correlation_window_size)])
              ELSE a1
    IN  [a2 EXCEPT !.config_ = config]

(***************************************************************************)
(* fft.cpp.  A float is modelled as an integer number of units with a      *)
(* mantissa of MantBits bits (24 in the source): the result of an          *)
(* addition, subtraction or multiplication is rounded to the nearest       *)
(* representable value, ties to even.  A complex number is <<re, im>>; a   *)
(* vector is a function on 0 .. n-1.  The twiddle factors w and wlen are   *)
(* hundredths (One): exact for the lengths 2 and 4, rounded for 8.         *)
(***************************************************************************)
MantBits == 8

\* the vector lengths of the round trip: those with exact twiddle factors
FftSizes == {1, 2, 4}

\* the nearest float to x: x itself when MantBits bits hold it, otherwise
\* the nearest multiple of the unit in the last place q, ties to even
RoundF(x) ==
    LET a == IF x < 0 THEN 0 - x ELSE x
        e == CHOOSE k \in 0 .. (4 * MantBits) : a < 2 ^ k /\ (k = 0 \/ a >= 2 ^ (k - 1))
        q == IF e > MantBits THEN 2 ^ (e - MantBits) ELSE 1
        lo == (a \div q) * q
        r == a - lo
        near == IF 2 * r > q \/ (2 * r = q /\ (a \div q) % 2 = 1) THEN lo + q ELSE lo
    IN  IF x < 0 THEN 0 - near ELSE near

\* fft's bit-reversal loop: the j of step i from the j of step i - 1
\* ("for (; j & bit; bit >>= 1) j ^= bit;  j ^= bit;")
RECURSIVE NextReversed(_, _)
NextReversed(j, bit) ==
    IF BitAnd(j, bit) /= 0 THEN NextReversed(j - bit, bit \div 2) ELSE j + bit

\* the j of step i of the bit-reversal loop over n elements
RECURSIVE Reversed(_, _)
Reversed(i, n) == IF i = 0 THEN 0 ELSE NextReversed(Reversed(i - 1, n), n \div 2)

\* wlen(std::cos(angle), std::sin(angle)), angle = -2 pi / len
Wlen(len) ==
    IF len = 2 THEN <<0 - One, 0>>
    ELSE IF len = 4 THEN <<0, 0 - One>>
    ELSE <<71, 0 - 71>>

\* the butterflies of one len of "Cooley-Tukey FFT" and of the lens after it
RECURSIVE Butterflies(_, _)
Butterflies(data, len) ==
    LET n == Cardinality(DOMAIN data)
        half == len \div 2
        \* the product of x and a twiddle factor y
        mul(x, y) == <<RoundF(Trunc(x[1] * y[1] - x[2] * y[2], One)),
                       RoundF(Trunc(x[1] * y[2] + x[2] * y[1], One))>>
        \* w after j times "w *= wlen"
        w1 == Wlen(len)
        w2 == mul(w1, w1)
        w(j) == IF j = 0 THEN <<One, 0>>
                ELSE IF j = 1 THEN w1
                ELSE IF j = 2 THEN w2
                ELSE mul(w2, w1)
        add(x, y) == <<RoundF(x[1] + y[1]), RoundF(x[2] + y[2])>>
        sub(x, y) == <<RoundF(x[1] - y[1]), RoundF(x[2] - y[2])>>
        done == [k \in DOMAIN data |->
                    IF k % len < half
                    THEN add(data[k], mul(data[k + half], w(k % len)))
                    ELSE sub(data[k - half], mul(data[k], w((k % len) - half)))]
    IN  IF len > n THEN data ELSE Butterflies(done, 2 * len)

\* fft(data): bit-reversal permutation, then the butterflies
fft(data) ==
    LET n == Cardinality(DOMAIN data)
    IN  IF n <= 1 THEN data
        ELSE Butterflies([i \in DOMAIN data |-> data[Reversed(i, n)]], 2)

NotScaled(x, n) == x
\* x / static_cast<float>(n), n a power of two: exact
Scaled(x, n) == x \div n

\* ifft(data): conjugate, forward FFT, conjugate and scale
ifft(data) ==
    LET n == Cardinality(DOMAIN data)
        forward == fft([i \in DOMAIN data |-> <<data[i][1], 0 - data[i][2]>>])
    IN  [i \in DOMAIN data |->
            <<Scaled(forward[i][1], n), Scaled(0 - forward[i][2], n)>>]

(***************************************************************************)
(* fft.h / fft.cpp find_peaks and frequency_analyzer.cpp.  Samples and     *)
(* magnitudes are fixed-point hundredths (One); frequencies are            *)
(* hundredths of a hertz.                                                  *)
(***************************************************************************)
\* is_power_of_two(n): n > 0 && (n & (n - 1)) == 0
PowerOfTwoOrZero(n) == BitAnd(n, n - 1) = 0
is_power_of_two(n) == n > 0 /\ BitAnd(n, n - 1) = 0

\* "size_t n = 1; while (n < fft_size) n <<= 1;" from n on
RECURSIVE RoundedUp(_, _)
RoundedUp(n, fft_size) ==
    IF n < fft_size THEN RoundedUp((2 * n) % SizeMod, fft_size) ELSE n

\* "Validate FFT size is power of 2": the configuration with fft_size
\* rounded up to the next power of two
Validated(config) ==
    IF ~is_power_of_two(config.fft_size)
    THEN [config EXCEPT !.fft_size = RoundedUp(1, config.fft_size)]
    ELSE config

\* the configurations of the model; history_size, max_peaks and the
\* threshold are small, the sample rate is 16 Hz
FAConfigs ==
    [fft_size : {0, 3, 4, 5, 8}, sample_rate : {16}, history_size : {1, 2},
     peak_threshold : {1}, max_peaks : {1}]

\* dominant_frequency has no initialiser; nothing reads it before
\* analyze_buffer has set it
NotSet == 0 - 1

\* FrequencyAnalyzer(config): the members after construction
FrequencyAnalyzer(config) ==
    LET valid == Validated(config)
    IN  [config_ |-> valid,
         audio_buffer_ |-> Zeros(valid.fft_size),
         buffer_write_pos_ |-> 0,
         fft_buffer_ |-> [i \in 0 .. (valid.fft_size - 1) |-> <<0, 0>>],
         magnitude_spectrum |-> Zeros(valid.fft_size),
         peaks |-> << >>,
         dominant_frequency |-> NotSet,
         spectrum_history_ |-> << >>,
         peak_history_ |-> << >>]

\* find_peaks' loop "for (size_t i = 1; i < half_n - 1; ++i)", half_n - 1
\* in size_t arithmetic: the bins it visits, and whether every index it
\* reads is below the size n of the spectrum
SearchedBin(i, half_n) == i < USub(half_n, 1)
InRange(n) == \A i \in 1 .. (SizeMod - 1) : SearchedBin(i, n \div 2) => i + 1 < n

\* find_peaks(magnitude_spectrum, sample_rate, threshold, max_peaks).
\* results: the peaks sorted by descending magnitude, in every order
\* std::sort may leave equal magnitudes in, cut to max_peaks
find_peaks(magnitude_spectrum, sample_rate, threshold, max_peaks) ==
    LET n == Cardinality(DOMAIN magnitude_spectrum)
        half_n == n \div 2
        maxima == {i \in 1 .. (n - 2) :
                      /\ SearchedBin(i, half_n)
                      /\ magnitude_spectrum[i] > threshold
                      /\ magnitude_spectrum[i] > magnitude_spectrum[i - 1]
                      /\ magnitude_spectrum[i] > magnitude_spectrum[i + 1]}
        peak(i) == [bin |-> i, magnitude |-> magnitude_spectrum[i],
                    frequency |-> (i * sample_rate * One) \div n]
        sorted == {order \in [1 .. Cardinality(maxima) -> maxima] :
                      /\ \A j, k \in DOMAIN order : j /= k => order[j] /= order[k]
                      /\ \A j, k \in DOMAIN order :
                            j < k => magnitude_spectrum[order[j]]
                                        >= magnitude_spectrum[order[k]]}
    IN  [in_range |-> InRange(n),
         results |-> IF InRange(n)
                     THEN {[k \in 1 .. Min(Len(order), max_peaks) |-> peak(order[k])] :
                              order \in sorted}
                     ELSE {}]

\* "Set dominant frequency"
DominantFrequency(peaks) == IF peaks /= << >> THEN peaks[1].frequency ELSE 0

\* apply_hann_window: 0.5 * (1 - cos(2 pi i / (n - 1))), for n = 1 the
\* quotient 0 / 0
NaN == "NaN"
HannWindow(n) ==
    IF n = 8 THEN [i \in 0 .. 7 |-> <<0, 19, 61, 95, 95, 61, 19, 0>>[i + 1]]
    ELSE IF n = 4 THEN [i \in 0 .. 3 |-> IF i \in {1, 2} THEN 75 ELSE 0]
    ELSE IF n = 2 THEN [i \in 0 .. 1 |-> 0]
    ELSE [i \in 0 .. (n - 1) |-> NaN]
apply_hann_window(data) ==
    LET window == HannWindow(Cardinality(DOMAIN data))
    IN  [i \in DOMAIN data |->
            <<RoundF(Trunc(data[i][1] * window[i], One)),
              RoundF(Trunc(data[i][2] * window[i], One))>>]

\* compute_magnitude_spectrum: magnitude[i] = std::abs(fft_data[i])
compute_magnitude_spectrum(fft_data) ==
    [i \in DOMAIN fft_data |->
        ISqrt(fft_data[i][1] * fft_data[i][1] + fft_data[i][2] * fft_data[i][2])]

\* history.push_back(frame); if (history.size() > history_size) pop_front()
PushFrame(history, frame, history_size) ==
    LET pushed == Append(history, frame)
    IN  IF Len(pushed) > history_size THEN Tail(pushed) ELSE pushed

\* analyze_buffer: fft_buffer_ filled from the audio buffer, oldest sample
\* first, windowed and transformed
Transform(f) ==
    [f EXCEPT !.fft_buffer_ =
        fft(apply_hann_window(
            [i \in 0 .. (f.config_.fft_size - 1) |->
                <<f.audio_buffer_[(f.buffer_write_pos_ + i)
                                      % f.config_.fft_size], 0>>]))]

\* analyze_buffer: the magnitude spectrum, "Normalize by FFT size"
Magnitudes(f) ==
    [f EXCEPT !.magnitude_spectrum =
        [i \in DOMAIN f.fft_buffer_ |->
            compute_magnitude_spectrum(f.fft_buffer_)[i]
                \div f.config_.fft_size]]

\* analyze_buffer: peaks stored, dominant frequency set, histories updated
WithPeaks(f, peaks) ==
    [f EXCEPT !.peaks = peaks,
              !.dominant_frequency = DominantFrequency(peaks),
              !.spectrum_history_ =
                  PushFrame(@, f.magnitude_spectrum, f.config_.history_size),
              !.peak_history_ = PushFrame(@, peaks, f.config_.history_size)]

\* analyze_buffer: "Find peaks" and what follows, for every order that
\* std::sort can leave equal magnitudes in
RecordPeaks(f) ==
    {WithPeaks(f, peaks) :
        peaks \in find_peaks(f.magnitude_spectrum, f.config_.sample_rate,
                             f.config_.peak_threshold,
                             f.config_.max_peaks).results}

\* analyze_buffer(): the outcomes, [aborted, f]; a find_peaks that reads
\* past the end of the spectrum ends the process
analyze_buffer(f) ==
    IF ~InRange(f.config_.fft_size) THEN {[aborted |-> TRUE, f |-> f]}
    ELSE {[aborted |-> FALSE, f |-> g] :
             g \in RecordPeaks(Magnitudes(Transform(f)))}

\* process_samples' loop: the samples stored in the circular buffer
RECURSIVE StoreSamples(_, _)
StoreSamples(f, samples) ==
    IF samples = << >> THEN f
    ELSE StoreSamples(
            [f EXCEPT !.audio_buffer_[f.buffer_write_pos_] = Head(samples),
                      !.buffer_write_pos_ =
                          (f.buffer_write_pos_ + 1) % f.config_.fft_size],
            Tail(samples))

\* process_samples(samples, count) with the function's static counter
\* samples_since_analysis = since: the outcomes,
\* [aborted, f, since, analyzed]
process_samples(f, since, samples) ==
    LET stored == StoreSamples(f, samples)
        counted == UAdd(since, Len(samples))
    IN  IF counted >= stored.config_.fft_size \div 4
        THEN {[aborted |-> r.aborted, f |-> r.f, since |-> 0, analyzed |-> TRUE] :
                 r \in analyze_buffer(stored)}
        ELSE {[aborted |-> FALSE, f |-> stored, since |-> counted,
               analyzed |-> FALSE]}

\* FrequencyAnalyzer::set_config(config)
FA_set_config(f, config) ==
    IF config.fft_size /= f.config_.fft_size
    THEN LET valid == Validated(config)
         IN  [f EXCEPT !.config_ = valid,
                       !.audio_buffer_ = Zeros(valid.fft_size),
                       !.fft_buffer_ =
                           [i \in 0 .. (valid.fft_size - 1) |->
                               IF i \in DOMAIN @ THEN @[i] ELSE <<0, 0>>],
                       !.magnitude_spectrum =
                           [i \in 0 .. (valid.fft_size - 1) |->
                               IF i \in DOMAIN @ THEN @[i] ELSE 0],
                       !.buffer_write_pos_ = 0,
                       !.spectrum_history_ = << >>,
                       !.peak_history_ = << >>]
    ELSE [f EXCEPT !.config_ = config]

(***************************************************************************)
(* simple_filters.h, simple_filters.cpp                                    *)
(*                                                                         *)
(* Samples, coefficients and Config floats are hundredths (One); the       *)
(* de-esser envelope, which moves by thousandths of a sample, is kept in   *)
(* units of One * 1000.  Frequencies are small integers; sin and cos of    *)
(* omega = 2 pi cutoff / sample_rate are tabulated for the angles used.    *)
(***************************************************************************)
EnvOne == One * 1000

\* Config(): the defaults, scaled to sample_rate 8
SFDefault ==
    [highpass_enabled |-> TRUE, highpass_cutoff |-> 1,
     highpass_resonance |-> 50,
     lowpass_enabled |-> FALSE, lowpass_cutoff |-> 2,
     lowpass_resonance |-> 71,
     deesser_enabled |-> FALSE, deesser_frequency |-> 2,
     deesser_threshold |-> 50, deesser_ratio |-> 50,
     deesser_bandwidth |-> 1,
     sample_rate |-> 8]

\* the configurations given to the constructor and to set_config
SFConfigs ==
    {SFDefault,
     [SFDefault EXCEPT !.lowpass_enabled = TRUE, !.deesser_enabled = TRUE,
                       !.deesser_threshold = 0],
     [SFDefault EXCEPT !.highpass_cutoff = 2, !.lowpass_enabled = TRUE,
                       !.deesser_enabled = TRUE, !.sample_rate = 16],
     [SFDefault EXCEPT !.highpass_enabled = FALSE, !.deesser_enabled = TRUE,
                       !.deesser_bandwidth = 2]}

\* std::sin(omega), std::cos(omega) for omega = pi/8, pi/4, pi/2
SinOmega(cutoff, sample_rate) ==
    LET sixteenths == (16 * cutoff) \div sample_rate
    IN  IF sixteenths = 1 THEN 38 ELSE IF sixteenths = 2 THEN 71 ELSE One
CosOmega(cutoff, sample_rate) ==
    LET sixteenths == (16 * cutoff) \div sample_rate
    IN  IF sixteenths = 1 THEN 92 ELSE IF sixteenths = 2 THEN 71 ELSE 0

\* struct BiquadFilter: the member initialisers
BiquadFilter ==
    [a0 |-> One, a1 |-> 0, a2 |-> 0, b0 |-> One, b1 |-> 0, b2 |-> 0,
     x1 |-> 0, x2 |-> 0, y1 |-> 0, y2 |-> 0]

\* BiquadFilter::reset forgetting the output history
ResetInputsOnly(filter) == [filter EXCEPT !.x1 = 0, !.x2 = 0]

\* BiquadFilter::reset
BiquadReset(filter) ==
    [filter EXCEPT !.x1 = 0, !.x2 = 0, !.y1 = 0, !.y2 = 0]

\* BiquadFilter::process: the filter afterwards; its y1 is the output
BiquadProcess(filter, input) ==
    LET output == Trunc(filter.b0 * input + filter.b1 * filter.x1
                        + filter.b2 * filter.x2 - filter.a1 * filter.y1
                        - filter.a2 * filter.y2, filter.a0)
    IN  [filter EXCEPT !.x2 = filter.x1, !.x1 = input,
                       !.y2 = filter.y1, !.y1 = output]

calculate_highpass_coefficients(cutoff, q, sample_rate, filter) ==
    LET sin_omega == SinOmega(cutoff, sample_rate)
        cos_omega == CosOmega(cutoff, sample_rate)
        alpha == Trunc(sin_omega * One, 2 * q)
    IN  [filter EXCEPT !.b0 = (One + cos_omega) \div 2,
                       !.b1 = 0 - (One + cos_omega),
                       !.b2 = (One + cos_omega) \div 2,
                       !.a0 = One + alpha,
                       !.a1 = 0 - 2 * cos_omega,
                       !.a2 = One - alpha]

calculate_lowpass_coefficients(cutoff, q, sample_rate, filter) ==
    LET sin_omega == SinOmega(cutoff, sample_rate)
        cos_omega == CosOmega(cutoff, sample_rate)
        alpha == Trunc(sin_omega * One, 2 * q)
    IN  [filter EXCEPT !.b0 = (One - cos_omega) \div 2,
                       !.b1 = One - cos_omega,
                       !.b2 = (One - cos_omega) \div 2,
                       !.a0 = One + alpha,
                       !.a1 = 0 - 2 * cos_omega,
                       !.a2 = One - alpha]

calculate_bandpass_coefficients(center, bandwidth, sample_rate, filter) ==
    LET sin_omega == SinOmega(center, sample_rate)
        cos_omega == CosOmega(center, sample_rate)
        q == Trunc(center * One, bandwidth)
        alpha == Trunc(sin_omega * One, 2 * q)
    IN  [filter EXCEPT !.b0 = alpha,
                       !.b1 = 0,
                       !.b2 = 0 - alpha,
                       !.a0 = One + alpha,
                       !.a1 = 0 - 2 * cos_omega,
                       !.a2 = One - alpha]

update_highpass_coefficients(s) ==
    [s EXCEPT !.highpass_ =
        calculate_highpass_coefficients(s.config_.highpass_cutoff,
            s.config_.highpass_resonance, s.config_.sample_rate, @)]
update_lowpass_coefficients(s) ==
    [s EXCEPT !.lowpass_ =
        calculate_lowpass_coefficients(s.config_.lowpass_cutoff,
            s.config_.lowpass_resonance, s.config_.sample_rate, @)]
update_deesser_coefficients(s) ==
    [s EXCEPT !.deesser_detector_ =
        calculate_bandpass_coefficients(s.config_.deesser_frequency,
            s.config_.deesser_bandwidth, s.config_.sample_rate, @)]

\* SimpleFilters(config): the members after construction
SimpleFilters(config) ==
    update_deesser_coefficients(update_lowpass_coefficients(
        update_highpass_coefficients(
            [config_ |-> config,
             highpass_ |-> BiquadFilter,
             lowpass_ |-> BiquadFilter,
             deesser_detector_ |-> BiquadFilter,
             deesser_envelope_ |-> 0])))

\* std::exp(-x) for x > 1.0
ExpMinus(x) ==
    IF x < 150 THEN 30 ELSE IF x < 200 THEN 17 ELSE IF x < 300 THEN 8
    ELSE IF x < 500 THEN 2 ELSE 0

\* "Soft clipping to prevent overflow"
SoftClip(sample) ==
    IF sample > One THEN One - ExpMinus(sample)
    ELSE IF sample < 0 - One THEN ExpMinus(0 - sample) - One
    ELSE sample

\* the body of process's loop for one sample: the members afterwards and
\* the value stored back into samples[i]
ProcessSample(s, input) ==
    LET hp == IF s.config_.highpass_enabled
              THEN BiquadProcess(s.highpass_, input) ELSE s.highpass_
        s1 == IF s.config_.highpass_enabled THEN hp.y1 ELSE input
        lp == IF s.config_.lowpass_enabled
              THEN BiquadProcess(s.lowpass_, s1) ELSE s.lowpass_
        s2 == IF s.config_.lowpass_enabled THEN lp.y1 ELSE s1
        det == BiquadProcess(s.deesser_detector_, s2)
        envelope == Abs(det.y1) * (EnvOne \div One)
        \* attack 0.001, release 0.01
        env == IF envelope > s.deesser_envelope_
               THEN Trunc(envelope, 1000)
                    + Trunc(s.deesser_envelope_ * 999, 1000)
               ELSE Trunc(envelope, 100)
                    + Trunc(s.deesser_envelope_ * 99, 100)
        threshold == s.config_.deesser_threshold * (EnvOne \div One)
        reduction == EnvOne - Trunc(s.config_.deesser_ratio
                                        * (env - threshold),
                                    One - s.config_.deesser_threshold)
        s3 == IF s.config_.deesser_enabled /\ env > threshold
              THEN Trunc(s2 * reduction, EnvOne) ELSE s2
    IN  [s |-> [s EXCEPT !.highpass_ = hp,
                         !.lowpass_ = lp,
                         !.deesser_detector_ =
                             IF s.config_.deesser_enabled THEN det ELSE @,
                         !.deesser_envelope_ =
                             IF s.config_.deesser_enabled THEN env ELSE @],
         sample |-> SoftClip(s3)]

\* SimpleFilters::process: the members afterwards and the samples in place
RECURSIVE Filters_process(_, _)
Filters_process(s, samples) ==
    IF samples = << >> THEN [s |-> s, samples |-> << >>]
    ELSE LET first == ProcessSample(s, Head(samples))
             later == Filters_process(first.s, Tail(samples))
         IN  [s |-> later.s, samples |-> <<first.sample>> \o later.samples]

\* SimpleFilters::reset
Filters_reset(s) ==
    [s EXCEPT !.highpass_ = BiquadReset(@),
              !.lowpass_ = BiquadReset(@),
              !.deesser_detector_ = BiquadReset(@),
              !.deesser_envelope_ = 0]

\* SimpleFilters::set_config
Filters_set_config(s, config) ==
    LET highpass_changed ==
            \/ config.highpass_cutoff /= s.config_.highpass_cutoff
            \/ config.highpass_resonance /= s.config_.highpass_resonance
            \/ config.sample_rate /= s.config_.sample_rate
        lowpass_changed ==
            \/ config.lowpass_cutoff /= s.config_.lowpass_cutoff
            \/ config.lowpass_resonance /= s.config_.lowpass_resonance
            \/ config.sample_rate /= s.config_.sample_rate
        deesser_changed ==
            \/ config.deesser_frequency /= s.config_.deesser_frequency
            \/ config.deesser_bandwidth /= s.config_.deesser_bandwidth
            \/ config.sample_rate /= s.config_.sample_rate
        s0 == [s EXCEPT !.config_ = config]
        s1 == IF highpass_changed THEN update_highpass_coefficients(s0) ELSE s0
        s2 == IF lowpass_changed THEN update_lowpass_coefficients(s1) ELSE s1
    IN  IF deesser_changed THEN update_deesser_coefficients(s2) ELSE s2

(***************************************************************************)
(* State                                                                   *)
(***************************************************************************)
VARIABLES
    ring,       \* the AudioRingBuffer: write_pos, read_pos, buffer_
    accepted,   \* history: the items whose writes were accepted, in order
    received,   \* history: the items returned to the consumer, in order
    last,       \* the last completed call of the sequential specification
    p,          \* producer thread: position and locals
    c,          \* consumer thread: position and locals
    config_,    \* capture session: Config (convert_to_mono, error_callback set)
    capturing_, \* capture session: std::atomic<bool> capturing_
    stats,      \* capture session: total_samples_, overruns_, underruns_
    t,          \* capture session: capture_thread_ and the thread's position
    m,          \* capture session: the thread calling start/stop/read_samples
    hist,       \* capture session: history (what has happened so far)
    pla,        \* the PhaseLockAnalyzer's members
    obs,        \* the analyzer's last call, its result, and its history
    original,   \* FFT round trip: the vector before the transforms
    signal,     \* FFT round trip: the vector the transforms work on
    step,       \* FFT round trip: the last transform applied to signal
    fa,         \* the FrequencyAnalyzer instances' members
    samples_since_analysis,  \* process_samples' static counter
    fobs,       \* the FrequencyAnalyzers' last call and their history
    legacy,     \* capture_data: the calls made and their record threads
    sf,         \* the SimpleFilters object's members
    sobs,       \* the SimpleFilters object's last call
    pk,         \* find_peaks: the arguments and the outcome of the call
    monad       \* Result / Option: the value, the last operation on it

session == <<config_, capturing_, stats, t, m, hist>>
analyzer == <<pla, obs>>
roundtrip == <<original, signal, step>>
frequency == <<fa, samples_since_analysis, fobs>>
rest == <<legacy, sf, sobs, pk, monad>>
others == <<roundtrip, frequency, rest>>
capture == <<ring, accepted, received, last, p, c, session>>
vars == <<ring, accepted, received, last, p, c, session, analyzer, others>>

NoCall ==
    [op |-> "none", ok |-> FALSE, err |-> "none", n |-> 0, count |-> 0,
     offset |-> 0, out |-> << >>, pre |-> NewRing]

\* ret of a thread that has not returned from a call yet
NoRet == 0 - 1

\* a thread outside a call; ret is the value its last call returned
\* (0: false / None / nothing copied)
IdleProducer ==
    [pc |-> "idle", write |-> 0, to_write |-> 0, k |-> 0, items |-> << >>,
     ret |-> NoRet]
IdleConsumer ==
    [pc |-> "idle", read |-> 0, to_read |-> 0, k |-> 0, out |-> << >>,
     ret |-> NoRet]

\* the unread items, oldest first
Unread == SubSeq(accepted, Len(received) + 1, Len(accepted))

\* AudioCapture::DEFAULT_BUFFER_SIZE (1 << 20), the Capacity of SampleBuffer
DEFAULT_BUFFER_SIZE == Capacity

\* config.buffer_size = 4096 in create_audio_capture: a size below
\* DEFAULT_BUFFER_SIZE
FactoryBufferSize == DEFAULT_BUFFER_SIZE \div 2

\* create_audio_capture: buffer_size = 4096, convert_to_mono = true,
\* error_callback left null
FactoryConfig ==
    [buffer_size |-> FactoryBufferSize, convert_to_mono |-> TRUE,
     error_callback |-> FALSE]

\* no capture thread: a default-constructed (not joinable) std::thread
NoThread == [st |-> "none", pc |-> "none", k |-> 0]

NoHistory ==
    [stopped |-> FALSE, spawned |-> 0, terminated |-> FALSE, packets |-> 0,
     offered |-> 0, failures |-> {}, returned |-> {}]

\* AudioCaptureBase(config): not capturing, counters 0, empty sample buffer
SessionInit(config) ==
    /\ config_ = config
    /\ capturing_ = FALSE
    /\ stats = [total_samples_ |-> 0, overruns_ |-> 0, underruns_ |-> 0]
    /\ t = NoThread
    /\ m = [pc |-> "idle"]
    /\ hist = NoHistory

RingInit ==
    /\ ring = NewRing
    /\ accepted = << >>
    /\ received = << >>
    /\ last = NoCall
    /\ p = IdleProducer
    /\ c = IdleConsumer

\* no call on the analyzer yet.  misses: the analyze(true) calls without a
\* good match made in a row on one reference, the call that seeded it
\* included
NoObs ==
    [op |-> "none", enabled |-> FALSE, state |-> State(0, FALSE, 0),
     updated |-> FALSE, misses |-> 0, added |-> 0, configured |-> 0,
     overflow |-> FALSE, aborted |-> FALSE]

AnalyzerInit(config) ==
    /\ pla = PhaseLockAnalyzer(config)
    /\ obs = NoObs

\* no vector yet
NoRoundTrip ==
    /\ original = << >>
    /\ signal = << >>
    /\ step = "none"

\* the FrequencyAnalyzer instances of the model
Instances == {"A", "B"}

\* Config(): the default configuration, at the model's scale
SomeFAConfig ==
    [fft_size |-> 8, sample_rate |-> 16, history_size |-> 1,
     peak_threshold |-> 1, max_peaks |-> 1]

\* the instances after construction with configs[i], no call yet.
\* requested: the fft_size last asked of each instance; received: the
\* samples each instance was given since its own last analysis; alone:
\* instance A and the static counter in the run without the calls on B
FAInit(configs) ==
    /\ fa = [i \in Instances |-> FrequencyAnalyzer(configs[i])]
    /\ samples_since_analysis = 0
    /\ fobs = [op |-> "none", who |-> "A", analyzed |-> FALSE, had |-> 0,
               aborted |-> FALSE, calls |-> 0,
               requested |-> [i \in Instances |-> configs[i].fft_size],
               received |-> [i \in Instances |-> 0],
               alone |-> [f |-> FrequencyAnalyzer(configs["A"]), since |-> 0,
                          aborted |-> FALSE]]

\* find_peaks not called, on an empty spectrum
NoSearch ==
    [magnitude_spectrum |-> << >>, threshold |-> 0, max_peaks |-> 0,
     called |-> FALSE, aborted |-> FALSE, peaks |-> << >>]

\* no Result or Option value
NoValue ==
    [subject |-> [kind |-> "none"], self |-> [kind |-> "none"], op |-> "none",
     func |-> "none", invoked |-> 0, default_value |-> 0, returned |-> 0,
     ops |-> 0]

\* no capture_data call yet; a SimpleFilters object built from config
RestInit(config) ==
    /\ legacy = << >>
    /\ sf = SimpleFilters(config)
    /\ sobs = [op |-> "none", pre |-> SimpleFilters(config), out |-> << >>,
               calls |-> 0]
    /\ pk = NoSearch
    /\ monad = NoValue

OthersInit ==
    /\ NoRoundTrip
    /\ FAInit([i \in Instances |-> SomeFAConfig])
    /\ RestInit(SFDefault)

Init == RingInit /\ SessionInit(FactoryConfig) /\ AnalyzerInit(SomePLAConfig) /\ OthersInit

(***************************************************************************)
(* Spec: the operations called one after another by one thread             *)
(***************************************************************************)
TryWrite ==
    /\ Len(accepted) < MaxItems
    /\ LET item == Len(accepted) + 1
           r == try_write(ring, item)
       IN  /\ ring' = r.rb
           /\ accepted' = IF r.ret THEN Append(accepted, item) ELSE accepted
           /\ last' = [NoCall EXCEPT !.op = "try_write", !.ok = r.ret,
                                     !.count = 1, !.pre = ring]
    /\ UNCHANGED <<received, p, c, session, analyzer, others>>

WriteBulk ==
    \E count \in 0 .. MaxCount :
        /\ Len(accepted) + count <= MaxItems
        /\ LET items == Serial(Len(accepted), count)
               r == write_bulk(ring, items, count)
           IN  /\ ring' = r.rb
               /\ accepted' = accepted \o SubSeq(items, 1, r.ret)
               /\ last' = [NoCall EXCEPT !.op = "write_bulk", !.n = r.ret,
                                         !.count = count, !.pre = ring]
        /\ UNCHANGED <<received, p, c, session, analyzer, others>>

TryRead ==
    /\ LET r == try_read(ring)
       IN  /\ ring' = r.rb
           /\ received' = IF r.some THEN Append(received, r.item) ELSE received
           /\ last' = [NoCall EXCEPT !.op = "try_read", !.ok = r.some,
                                     !.count = 1, !.pre = ring,
                                     !.out = IF r.some THEN <<r.item>> ELSE << >>]
    /\ UNCHANGED <<accepted, p, c, session, analyzer, others>>

ReadBulk ==
    \E count \in 0 .. MaxCount :
        /\ LET r == read_bulk(ring, count)
           IN  /\ ring' = r.rb
               /\ received' = received \o r.items
               /\ last' = [NoCall EXCEPT !.op = "read_bulk", !.n = r.ret,
                                         !.count = count, !.pre = ring,
                                         !.out = r.items]
        /\ UNCHANGED <<accepted, p, c, session, analyzer, others>>

PeekBulk ==
    \E count \in 0 .. MaxCount, offset \in 0 .. Capacity :
        /\ LET r == peek_bulk(ring, count, offset)
           IN  /\ ring' = r.rb
               /\ last' = [NoCall EXCEPT !.op = "peek_bulk", !.n = r.ret,
                                         !.count = count, !.offset = offset,
                                         !.pre = ring, !.out = r.items]
        /\ UNCHANGED <<accepted, received, p, c, session, analyzer, others>>

Next == TryWrite \/ WriteBulk \/ TryRead \/ ReadBulk \/ PeekBulk

Spec == Init /\ [][Next]_vars

(***************************************************************************)
(* Properties of the sequential specification                              *)
(***************************************************************************)
\* the whole content of buffer b as one read_bulk of Capacity elements
\* would return it
Content(b) == read_bulk(b, Capacity).items

\* n successive try_write calls of the first n items
RECURSIVE TryWriteTimes(_, _, _)
TryWriteTimes(b, items, n) ==
    IF n = 0 THEN b
    ELSE try_write(TryWriteTimes(b, items, n - 1), items[n]).rb

\* n successive try_read calls: the buffer and the items returned
RECURSIVE TryReadTimes(_, _)
TryReadTimes(b, n) ==
    IF n = 0 THEN [rb |-> b, items |-> << >>]
    ELSE LET before == TryReadTimes(b, n - 1)
             r == try_read(before.rb)
         IN  [rb |-> r.rb, items |-> Append(before.items, r.item)]

\* C2: the number of unread elements is at most Capacity-1;
\* available_read() + available_write() = Capacity-1; empty() holds exactly
\* when available_read() = 0 and full() exactly when available_write() = 0;
\* a fresh buffer reports available_write() = Capacity-1.
C2_CapacityInvariant ==
    /\ Len(Unread) <= Capacity - 1
    /\ available_read(ring) = Len(Unread)
    /\ available_read(ring) + available_write(ring) = Capacity - 1
    /\ empty(ring) <=> (available_read(ring) = 0)
    /\ full(ring) <=> (available_write(ring) = 0)
    /\ (accepted = << >> => available_write(ring) = Capacity - 1)

\* C2 witness: a full buffer whose cursors have wrapped (write_pos is
\* behind read_pos in the array)
C2_Witness ==
    /\ full(ring)
    /\ ring.write_pos < ring.read_pos
    /\ Len(Unread) = Capacity - 1

\* number of unread elements before the last try_write
UnreadBeforeTryWrite == Len(Unread) - (IF last.ok THEN 1 ELSE 0)

\* C3: try_write on a buffer holding Capacity-1 unread elements returns
\* false and changes neither cursor nor any slot; in every other state it
\* returns true and appends the item; after one element has been read from
\* a full buffer the next try_write succeeds.
C3_TryWriteFullOrAppend ==
    /\ last.op = "try_write" =>
        IF UnreadBeforeTryWrite = Capacity - 1
        THEN ~last.ok /\ ring = last.pre
        ELSE /\ last.ok
             /\ ring.read_pos = last.pre.read_pos
             /\ ring.write_pos = (last.pre.write_pos + 1) % Capacity
             /\ Content(ring) = Append(Content(last.pre), Len(accepted))
             /\ Content(ring) = Unread
    /\ (last.op = "try_read" /\ last.ok /\ full(last.pre)) =>
        try_write(ring, Len(accepted) + 1).ret

\* C3 witness: a try_write refused on a full buffer after the cursors wrapped
C3_Witness ==
    /\ last.op = "try_write"
    /\ ~last.ok
    /\ Len(accepted) > Capacity
    /\ Len(Unread) = Capacity - 1

\* C5: write_bulk stores the first min(count, available_write()) items in
\* order and returns that number; read_bulk removes the oldest
\* min(count, available_read()) items in write order and returns that
\* number; cursors and contents equal those of that many try_write /
\* try_read calls, also across the end of the backing array.
C5_BulkEqualsRepeatedSingle ==
    /\ last.op = "write_bulk" =>
        /\ last.n = Min(last.count, available_write(last.pre))
        /\ ring = TryWriteTimes(last.pre,
                                Serial(Len(accepted) - last.n, last.n), last.n)
        /\ Content(ring) =
              Content(last.pre) \o Serial(Len(accepted) - last.n, last.n)
        /\ Content(ring) = Unread
    /\ last.op = "read_bulk" =>
        /\ last.n = Min(last.count, available_read(last.pre))
        /\ last.out = SubSeq(Content(last.pre), 1, last.n)
        /\ last.out = SubSeq(received, Len(received) - last.n + 1, Len(received))
        /\ ring = TryReadTimes(last.pre, last.n).rb
        /\ last.out = TryReadTimes(last.pre, last.n).items
        /\ received = SubSeq(accepted, 1, Len(received))

\* C5 witness: a write_bulk cut short by the free space and split across
\* the end of the backing array
C5_Witness ==
    /\ last.op = "write_bulk"
    /\ last.n >= 2
    /\ last.n < last.count
    /\ last.pre.write_pos + last.n > Capacity

\* C6: peek_bulk returns min(count, available_read() - offset) elements, 0
\* when offset >= available_read(); they are the unread elements at
\* positions offset, offset+1, ... from the read cursor in write order; the
\* call changes nothing, so a following read_bulk returns every unread
\* element.
C6_PeekNonDestructive ==
    last.op = "peek_bulk" =>
        /\ last.n = IF last.offset >= available_read(last.pre) THEN 0
                    ELSE Min(last.count, available_read(last.pre) - last.offset)
        /\ last.out = SubSeq(Unread, last.offset + 1, last.offset + last.n)
        /\ ring = last.pre
        /\ available_read(ring) = available_read(last.pre)
        /\ read_bulk(ring, Capacity).items = Unread

\* C6 witness: a peek at a non-zero offset whose range crosses the end of
\* the backing array
C6_Witness ==
    /\ last.op = "peek_bulk"
    /\ last.offset >= 1
    /\ last.n >= 2
    /\ ((ring.read_pos + last.offset) % Capacity) + last.n > Capacity

(***************************************************************************)
(* SpecSPSC: a producer thread and a consumer thread on one buffer.  Every *)
(* load or store of write_pos / read_pos and every slot access is a step   *)
(* of its own.  A slot store takes two steps (the slot holds a torn value  *)
(* in between), so a read that overlaps a write returns a torn value.      *)
(***************************************************************************)
SetSlot(b, pos, v) == [b EXCEPT !.buffer_[pos] = v]

\* slot of the k-th element (k = 0, 1, ...) of a bulk copy starting at pos:
\* the first chunk runs to the end of the array, the second starts at 0
BulkPos(pos, n, k) ==
    LET first_chunk == FirstChunk(n, pos)
    IN  IF k < first_chunk THEN pos + k ELSE k - first_chunk

\* ---- producer: try_write -------------------------------------------------
P_TryWrite_LoadWrite ==
    /\ p.pc = "idle"
    /\ Len(accepted) < MaxItems
    /\ p' = [IdleProducer EXCEPT !.pc = "tw_load_read",
                                 !.write = ring.write_pos,
                                 !.items = Serial(Len(accepted), 1)]
    /\ UNCHANGED <<ring, accepted, received, last, c, session, analyzer, others>>

P_TryWrite_LoadRead ==
    /\ p.pc = "tw_load_read"
    /\ p' = IF IsFull(NextPos(p.write), ring.read_pos)
            THEN [IdleProducer EXCEPT !.ret = 0]
            ELSE [p EXCEPT !.pc = "tw_slot"]
    /\ UNCHANGED <<ring, accepted, received, last, c, session, analyzer, others>>

P_TryWrite_SlotBegin ==
    /\ p.pc = "tw_slot"
    /\ ring' = SetSlot(ring, p.write, Torn(p.items[1]))
    /\ p' = [p EXCEPT !.pc = "tw_slot_end"]
    /\ UNCHANGED <<accepted, received, last, c, session, analyzer, others>>

P_TryWrite_SlotEnd ==
    /\ p.pc = "tw_slot_end"
    /\ ring' = SetSlot(ring, p.write, p.items[1])
    /\ p' = [p EXCEPT !.pc = "tw_store"]
    /\ UNCHANGED <<accepted, received, last, c, session, analyzer, others>>

P_TryWrite_Store ==
    /\ p.pc = "tw_store"
    /\ ring' = [ring EXCEPT !.write_pos = NextPos(p.write)]
    /\ accepted' = Append(accepted, p.items[1])
    /\ p' = [IdleProducer EXCEPT !.ret = 1]
    /\ UNCHANGED <<received, last, c, session, analyzer, others>>

\* ---- producer: write_bulk ------------------------------------------------
P_WriteBulk_LoadWrite ==
    \E count \in 1 .. MaxCount :
        /\ p.pc = "idle"
        /\ Len(accepted) + count <= MaxItems
        /\ p' = [IdleProducer EXCEPT !.pc = "wb_load_read",
                                     !.write = ring.write_pos,
                                     !.items = Serial(Len(accepted), count)]
        /\ UNCHANGED <<ring, accepted, received, last, c, session, analyzer, others>>

P_WriteBulk_LoadRead ==
    /\ p.pc = "wb_load_read"
    /\ LET available == WriteAvailable(p.write, ring.read_pos)
           to_write == Min(Len(p.items), available)
       IN  p' = IF to_write = 0
                THEN [IdleProducer EXCEPT !.ret = 0]
                ELSE [p EXCEPT !.pc = "wb_copy", !.to_write = to_write, !.k = 0]
    /\ UNCHANGED <<ring, accepted, received, last, c, session, analyzer, others>>

P_WriteBulk_CopyBegin ==
    /\ p.pc = "wb_copy"
    /\ ring' = SetSlot(ring, BulkPos(p.write, p.to_write, p.k),
                       Torn(p.items[p.k + 1]))
    /\ p' = [p EXCEPT !.pc = "wb_copy_end"]
    /\ UNCHANGED <<accepted, received, last, c, session, analyzer, others>>

P_WriteBulk_CopyEnd ==
    /\ p.pc = "wb_copy_end"
    /\ ring' = SetSlot(ring, BulkPos(p.write, p.to_write, p.k), p.items[p.k + 1])
    /\ p' = [p EXCEPT !.k = p.k + 1,
                      !.pc = IF p.k + 1 < p.to_write THEN "wb_copy" ELSE "wb_store"]
    /\ UNCHANGED <<accepted, received, last, c, session, analyzer, others>>

P_WriteBulk_Store ==
    /\ p.pc = "wb_store"
    /\ ring' = [ring EXCEPT !.write_pos = BitAnd(UAdd(p.write, p.to_write), mask_)]
    /\ accepted' = accepted \o SubSeq(p.items, 1, p.to_write)
    /\ p' = [IdleProducer EXCEPT !.ret = p.to_write]
    /\ UNCHANGED <<received, last, c, session, analyzer, others>>

\* ---- consumer: try_read --------------------------------------------------
C_TryRead_LoadRead ==
    /\ c.pc = "idle"
    /\ c' = [IdleConsumer EXCEPT !.pc = "tr_load_write", !.read = ring.read_pos]
    /\ UNCHANGED <<ring, accepted, received, last, p, session, analyzer, others>>

C_TryRead_LoadWrite ==
    /\ c.pc = "tr_load_write"
    /\ c' = IF c.read = ring.write_pos
            THEN [IdleConsumer EXCEPT !.ret = 0]
            ELSE [c EXCEPT !.pc = "tr_slot"]
    /\ UNCHANGED <<ring, accepted, received, last, p, session, analyzer, others>>

C_TryRead_Slot ==
    /\ c.pc = "tr_slot"
    /\ c' = [c EXCEPT !.pc = "tr_store", !.out = <<ring.buffer_[c.read]>>]
    /\ UNCHANGED <<ring, accepted, received, last, p, session, analyzer, others>>

C_TryRead_Store ==
    /\ c.pc = "tr_store"
    /\ ring' = [ring EXCEPT !.read_pos = NextPos(c.read)]
    /\ received' = received \o c.out
    /\ c' = [IdleConsumer EXCEPT !.ret = 1]
    /\ UNCHANGED <<accepted, last, p, session, analyzer, others>>

\* ---- consumer: read_bulk -------------------------------------------------
C_ReadBulk_LoadRead ==
    \E count \in 1 .. MaxCount :
        /\ c.pc = "idle"
        /\ c' = [IdleConsumer EXCEPT !.pc = "rb_load_write",
                                     !.read = ring.read_pos,
                                     !.to_read = count]
        /\ UNCHANGED <<ring, accepted, received, last, p, session, analyzer, others>>

C_ReadBulk_LoadWrite ==
    /\ c.pc = "rb_load_write"
    /\ LET available == ReadAvailable(ring.write_pos, c.read)
           to_read == Min(c.to_read, available)
       IN  c' = IF to_read = 0
                THEN [IdleConsumer EXCEPT !.ret = 0]
                ELSE [c EXCEPT !.pc = "rb_copy", !.to_read = to_read, !.k = 0]
    /\ UNCHANGED <<ring, accepted, received, last, p, session, analyzer, others>>

C_ReadBulk_Copy ==
    /\ c.pc = "rb_copy"
    /\ c' = [c EXCEPT !.out = Append(c.out,
                                     ring.buffer_[BulkPos(c.read, c.to_read, c.k)]),
                      !.k = c.k + 1,
                      !.pc = IF c.k + 1 < c.to_read THEN "rb_copy" ELSE "rb_store"]
    /\ UNCHANGED <<ring, accepted, received, last, p, session, analyzer, others>>

C_ReadBulk_Store ==
    /\ c.pc = "rb_store"
    /\ ring' = [ring EXCEPT !.read_pos = BitAnd(UAdd(c.read, c.to_read), mask_)]
    /\ received' = received \o c.out
    /\ c' = [IdleConsumer EXCEPT !.ret = c.to_read]
    /\ UNCHANGED <<accepted, last, p, session, analyzer, others>>

ProducerTryWrite ==
    \/ P_TryWrite_LoadWrite
    \/ P_TryWrite_LoadRead
    \/ P_TryWrite_SlotBegin
    \/ P_TryWrite_SlotEnd
    \/ P_TryWrite_Store

ProducerWriteBulk ==
    \/ P_WriteBulk_LoadWrite
    \/ P_WriteBulk_LoadRead
    \/ P_WriteBulk_CopyBegin
    \/ P_WriteBulk_CopyEnd
    \/ P_WriteBulk_Store

ConsumerTryReadSteps ==
    \/ C_TryRead_LoadWrite
    \/ C_TryRead_Slot
    \/ C_TryRead_Store

ConsumerReadBulk ==
    \/ C_ReadBulk_LoadRead
    \/ C_ReadBulk_LoadWrite
    \/ C_ReadBulk_Copy
    \/ C_ReadBulk_Store

NextSPSC ==
    \/ ProducerTryWrite
    \/ ProducerWriteBulk
    \/ C_TryRead_LoadRead
    \/ ConsumerTryReadSteps
    \/ ConsumerReadBulk

SpecSPSC == Init /\ [][NextSPSC]_vars

\* C1: in every interleaving of one producer and one consumer the values
\* returned to the consumer are a prefix of the values whose writes were
\* accepted: nothing is lost, duplicated, reordered or read before it was
\* fully written, also after the cursors have wrapped.
C1_ReceivedIsPrefixOfAccepted ==
    /\ Len(received) <= Len(accepted)
    /\ received = SubSeq(accepted, 1, Len(received))
    /\ accepted = Serial(0, Len(accepted))

\* C1 witness: the consumer has received more items than the array has
\* slots while a bulk write that crosses the end of the array is in
\* progress and the consumer is inside a call
C1_Witness ==
    /\ Len(received) > Capacity
    /\ p.pc = "wb_copy_end"
    /\ p.write + p.to_write > Capacity
    /\ c.pc \in {"tr_slot", "rb_copy"}

(***************************************************************************)
(* SpecTest: the thread-safety test.  The producer writes the items in     *)
(* order with try_write and retries a refused write; the consumer calls    *)
(* try_read until it has received every item.  Both threads are scheduled  *)
(* again and again (std::this_thread::yield), hence weak fairness of each. *)
(***************************************************************************)
T_TryRead_LoadRead ==
    /\ Len(received) < MaxItems
    /\ C_TryRead_LoadRead

TestProducer == ProducerTryWrite
TestConsumer == T_TryRead_LoadRead \/ ConsumerTryReadSteps

NextTest == TestProducer \/ TestConsumer

SpecTest ==
    /\ Init
    /\ [][NextTest]_vars
    /\ WF_vars(TestProducer)
    /\ WF_vars(TestConsumer)

\* both loops have ended and the consumer holds every item in order
TestDone ==
    /\ p.pc = "idle"
    /\ c.pc = "idle"
    /\ Len(accepted) = MaxItems
    /\ received = Serial(0, MaxItems)

\* the producer's last try_write found the buffer full
ProducerSawFull == p.pc = "idle" /\ p.ret = 0
\* the consumer's last try_read found the buffer empty
ConsumerSawEmpty == c.pc = "idle" /\ c.ret = 0

\* C4: with a retrying producer and a retrying consumer, under weak
\* fairness of both threads, the consumer eventually has received all the
\* items and both threads terminate; the producer seeing the buffer full
\* while the consumer sees it empty never lasts forever.
C4_TestTerminates ==
    /\ <>[]TestDone
    /\ []<>(~(ProducerSawFull /\ ConsumerSawEmpty))

\* C4 witness: after the cursors wrapped, the producer's last write was
\* refused (full) and the consumer's last read found nothing (empty)
C4_Witness ==
    /\ ProducerSawFull
    /\ ConsumerSawEmpty
    /\ Len(received) > Capacity
    /\ Len(accepted) < MaxItems

(***************************************************************************)
(* SpecCap: a capture session (AudioCaptureBase / LinuxAudioCapture).      *)
(* One thread calls start(), stop() and read_samples(); start() spawns the *)
(* capture thread, which runs capture_loop() and feeds the sample buffer   *)
(* through process_audio_callback().  The ring-buffer calls are atomic     *)
(* here.  Samples are numbered in the order the backend offers them.       *)
(***************************************************************************)
Configs ==
    [buffer_size : {DEFAULT_BUFFER_SIZE}, convert_to_mono : BOOLEAN,
     error_callback : BOOLEAN]

\* the process is running (std::terminate has not been called)
Alive == ~hist.terminated

NeverJoinable(thread) == FALSE
\* capture_thread_.joinable()
Joinable(thread) == thread.st /= "none"

NeverCapturing(flag) == FALSE
\* start's test: capturing_.load()
AlreadyCapturing(flag) == flag

ShortfallOrExact(read, count) == read <= count
\* read_samples' test: read < count
Shortfall(read, count) == read < count

fetch_sub(counter, n) == counter - n
\* std::atomic<uint64_t>::fetch_add on a statistics counter: the new value
fetch_add(counter, n) == counter + n

\* a backend failure: config_.error_callback(error) is called when a
\* callback is set, and nothing else records the error
Report(h, error) == [h EXCEPT !.failures = @ \cup {error}]

\* the errors passed to config_.error_callback so far
Reported == IF config_.error_callback THEN hist.failures ELSE {}

\* ---- the calling thread --------------------------------------------------
Start ==
    /\ m.pc = "idle"
    /\ Alive
    /\ IF AlreadyCapturing(capturing_)
       THEN /\ last' = [NoCall EXCEPT !.op = "start", !.ok = FALSE,
                                      !.err = "SystemError"]
            /\ hist' = [hist EXCEPT !.returned = @ \cup {"SystemError"},
                                    !.stopped = FALSE]
            /\ UNCHANGED <<capturing_, t>>
       ELSE /\ hist.spawned < MaxStarts
            /\ capturing_' = TRUE
            \* assigning to a joinable std::thread calls std::terminate
            /\ t' = IF Joinable(t) THEN t
                    ELSE [NoThread EXCEPT !.st = "running", !.pc = "init"]
            /\ hist' = [hist EXCEPT !.spawned = @ + 1, !.stopped = FALSE,
                                    !.terminated = Joinable(t)]
            /\ last' = [NoCall EXCEPT !.op = "start", !.ok = TRUE]
    /\ UNCHANGED <<ring, accepted, received, p, c, config_, stats, m, analyzer, others>>

\* stop() up to its return, or up to the join when there is a thread to join
Stop ==
    /\ m.pc = "idle"
    /\ Alive
    /\ capturing_' = FALSE
    /\ IF Joinable(t)
       THEN /\ m' = [pc |-> "joining"]
            /\ UNCHANGED <<last, hist>>
       ELSE /\ last' = [NoCall EXCEPT !.op = "stop", !.n = 0]
            /\ hist' = [hist EXCEPT !.stopped = TRUE]
            /\ UNCHANGED m
    /\ UNCHANGED <<ring, accepted, received, p, c, config_, stats, t, analyzer, others>>

\* capture_thread_.join() returns once the thread has finished
StopJoin ==
    /\ m.pc = "joining"
    /\ Alive
    /\ t.st = "finished"
    /\ t' = NoThread
    /\ m' = [pc |-> "idle"]
    /\ last' = [NoCall EXCEPT !.op = "stop", !.n = 1]
    /\ hist' = [hist EXCEPT !.stopped = TRUE]
    /\ UNCHANGED <<ring, accepted, received, p, c, config_, capturing_, stats, analyzer, others>>

ReadSamples ==
    \E count \in 0 .. MaxRead :
        /\ m.pc = "idle"
        /\ Alive
        /\ stats.underruns_ < MaxUnderruns
        /\ LET r == read_bulk(ring, count)
           IN  /\ ring' = r.rb
               /\ received' = received \o r.items
               /\ stats' = IF Shortfall(r.ret, count)
                           THEN [stats EXCEPT !.underruns_ = fetch_add(@, 1)]
                           ELSE stats
               /\ last' = [NoCall EXCEPT !.op = "read_samples", !.n = r.ret,
                                         !.count = count]
        /\ UNCHANGED <<accepted, p, c, config_, capturing_, t, m, hist, analyzer, others>>

\* peek_samples(buffer, count, offset): peek_bulk on the sample buffer
PeekSamples ==
    /\ m.pc = "idle"
    /\ Alive
    /\ \E n \in {peek_bulk(ring, count, offset).ret :
                     count \in 1 .. MaxRead, offset \in {0, 1}} :
          last' = [NoCall EXCEPT !.op = "peek_samples", !.n = n]
    /\ UNCHANGED <<ring, accepted, received, p, c, session, analyzer, others>>

\* available_samples(): available_read on the sample buffer
AvailableSamples ==
    /\ m.pc = "idle"
    /\ Alive
    /\ last' = [NoCall EXCEPT !.op = "available_samples",
                              !.n = available_read(ring)]
    /\ UNCHANGED <<ring, accepted, received, p, c, session, analyzer, others>>

\* get_stats(): buffer_capacity (config_.buffer_size) in `count`,
\* available_samples in `n`, and the loads of total_samples_, overruns_ and
\* underruns_, in this order in `out`
GetStats ==
    /\ m.pc = "idle"
    /\ Alive
    /\ last' = [NoCall EXCEPT !.op = "get_stats",
                              !.count = config_.buffer_size,
                              !.n = available_read(ring),
                              !.out = <<stats.total_samples_, stats.overruns_,
                                        stats.underruns_>>]
    /\ UNCHANGED <<ring, accepted, received, p, c, session, analyzer, others>>

\* ---- the capture thread: capture_loop ------------------------------------
\* pa_simple_new succeeds, or fails and the thread returns
T_PulseNew ==
    \E ok \in BOOLEAN :
        /\ t.st = "running" /\ t.pc = "init"
        /\ Alive
        /\ IF ok
           THEN /\ t' = [t EXCEPT !.pc = "loop"]
                /\ UNCHANGED hist
           ELSE /\ t' = [t EXCEPT !.st = "finished", !.pc = "done"]
                /\ hist' = Report(hist, "InitializationFailed")
        /\ UNCHANGED <<ring, accepted, received, last, p, c, config_,
                       capturing_, stats, m, analyzer, others>>

\* while (capturing_.load())
T_LoopTest ==
    /\ t.st = "running" /\ t.pc = "loop"
    /\ Alive
    /\ t' = [t EXCEPT !.pc = IF capturing_ THEN "read" ELSE "cleanup"]
    /\ UNCHANGED <<ring, accepted, received, last, p, c, config_, capturing_,
                   stats, m, hist, analyzer, others>>

\* pa_simple_read returns a packet, or fails and the loop breaks
T_PulseRead ==
    \E ok \in BOOLEAN :
        /\ t.st = "running" /\ t.pc = "read"
        /\ Alive
        /\ IF ok
           THEN /\ hist.packets < MaxPackets
                /\ t' = [t EXCEPT !.pc = "cb", !.k = 0]
                /\ hist' = [hist EXCEPT !.packets = @ + 1]
           ELSE /\ t' = [t EXCEPT !.pc = "cleanup"]
                /\ hist' = Report(hist, "ReadError")
        /\ UNCHANGED <<ring, accepted, received, last, p, c, config_,
                       capturing_, stats, m, analyzer, others>>

\* the frame after frame k of the packet, or the end of the callback
NextFrame(thread) ==
    IF thread.k + 1 < PacketFrames
    THEN [thread EXCEPT !.pc = "cb", !.k = thread.k + 1]
    ELSE [thread EXCEPT !.pc = "loop", !.k = 0]

\* the callback ends before the packet does ("break")
BreakPacket(thread) == [thread EXCEPT !.pc = "loop", !.k = 0]

\* process_audio_callback, mono, frame k: try_write(mono), then overruns_
\* or total_samples_ is incremented
T_MonoFrame ==
    /\ t.st = "running" /\ t.pc = "cb"
    /\ Alive
    /\ config_.convert_to_mono
    /\ LET r == try_write(ring, hist.offered + 1)
       IN  /\ ring' = r.rb
           /\ accepted' = IF r.ret THEN Append(accepted, hist.offered + 1)
                          ELSE accepted
           /\ stats' = IF r.ret
                       THEN [stats EXCEPT !.total_samples_ = fetch_add(@, 1)]
                       ELSE [stats EXCEPT !.overruns_ = fetch_add(@, 1)]
    /\ t' = NextFrame(t)
    /\ hist' = [hist EXCEPT !.offered = @ + 1]
    /\ UNCHANGED <<received, last, p, c, config_, capturing_, m, analyzer, others>>

\* process_audio_callback, stereo, frame k: try_write(packet.left); when it
\* is refused, overruns_ is incremented and the packet is abandoned
T_StereoLeft ==
    /\ t.st = "running" /\ t.pc = "cb"
    /\ Alive
    /\ ~config_.convert_to_mono
    /\ LET r == try_write(ring, hist.offered + 1)
       IN  /\ ring' = r.rb
           /\ accepted' = IF r.ret THEN Append(accepted, hist.offered + 1)
                          ELSE accepted
           /\ stats' = IF r.ret THEN stats
                       ELSE [stats EXCEPT !.overruns_ = fetch_add(@, 1)]
           /\ t' = IF r.ret THEN [t EXCEPT !.pc = "cb_right"]
                   ELSE BreakPacket(t)
    /\ hist' = [hist EXCEPT !.offered = @ + 1]
    /\ UNCHANGED <<received, last, p, c, config_, capturing_, m, analyzer, others>>

\* process_audio_callback, stereo, frame k: try_write(packet.right); when it
\* is refused, overruns_ is incremented and the packet is abandoned,
\* otherwise total_samples_ grows by 2
T_StereoRight ==
    /\ t.st = "running" /\ t.pc = "cb_right"
    /\ Alive
    /\ LET r == try_write(ring, hist.offered + 1)
       IN  /\ ring' = r.rb
           /\ accepted' = IF r.ret THEN Append(accepted, hist.offered + 1)
                          ELSE accepted
           /\ stats' = IF r.ret
                       THEN [stats EXCEPT !.total_samples_ = fetch_add(@, 2)]
                       ELSE [stats EXCEPT !.overruns_ = fetch_add(@, 1)]
           /\ t' = IF r.ret THEN NextFrame(t) ELSE BreakPacket(t)
    /\ hist' = [hist EXCEPT !.offered = @ + 1]
    /\ UNCHANGED <<received, last, p, c, config_, capturing_, m, analyzer, others>>

\* pa_simple_free; capture_loop returns
T_Cleanup ==
    /\ t.st = "running" /\ t.pc = "cleanup"
    /\ Alive
    /\ t' = [t EXCEPT !.st = "finished", !.pc = "done"]
    /\ UNCHANGED <<ring, accepted, received, last, p, c, config_, capturing_,
                   stats, m, hist, analyzer, others>>

CaptureThread ==
    \/ T_PulseNew
    \/ T_LoopTest
    \/ T_PulseRead
    \/ T_MonoFrame
    \/ T_StereoLeft
    \/ T_StereoRight
    \/ T_Cleanup

NextCap == Start \/ Stop \/ StopJoin \/ ReadSamples \/ CaptureThread

InitCap ==
    /\ RingInit
    /\ \E config \in Configs : SessionInit(config)
    /\ AnalyzerInit(SomePLAConfig) /\ OthersInit

SpecCap == InitCap /\ [][NextCap]_vars

\* ---- SpecStats: the session together with its read-only observers -------
\* the configurations without an error callback (as create_audio_capture
\* leaves it), in both channel modes
InitStats ==
    /\ RingInit
    /\ AnalyzerInit(SomePLAConfig) /\ OthersInit
    /\ \E mono \in BOOLEAN :
          SessionInit([FactoryConfig EXCEPT !.convert_to_mono = mono])

NextStats == NextCap \/ PeekSamples \/ AvailableSamples \/ GetStats

SpecStats == InitStats /\ [][NextStats]_vars

\* ---- SpecCallback: the producer callback on a capturing session ---------
\* the platform code hands process_audio_callback a packet of PacketFrames
\* stereo frames, as often as the sample numbering allows
T_Callback ==
    /\ t.st = "running" /\ t.pc = "loop"
    /\ hist.offered + 2 * PacketFrames <= MaxItems
    /\ t' = [t EXCEPT !.pc = "cb", !.k = 0]
    /\ hist' = [hist EXCEPT !.packets = @ + 1]
    /\ UNCHANGED <<ring, accepted, received, last, p, c, config_, capturing_,
                   stats, m, analyzer, others>>

\* a session of either channel mode after start(), its capture thread in
\* capture_loop with the backend open
InitCallback ==
    /\ RingInit
    /\ AnalyzerInit(SomePLAConfig) /\ OthersInit
    /\ \E mono \in BOOLEAN :
          /\ config_ = [FactoryConfig EXCEPT !.convert_to_mono = mono]
          /\ capturing_ = TRUE
          /\ stats = [total_samples_ |-> 0, overruns_ |-> 0, underruns_ |-> 0]
          /\ t = [NoThread EXCEPT !.st = "running", !.pc = "loop"]
          /\ m = [pc |-> "idle"]
          /\ hist = [NoHistory EXCEPT !.spawned = 1]

NextCallback ==
    \/ T_Callback
    \/ T_MonoFrame
    \/ T_StereoLeft
    \/ T_StereoRight
    \/ ReadSamples

SpecCallback == InitCallback /\ [][NextCallback]_vars

(***************************************************************************)
(* Properties of the capture session                                       *)
(***************************************************************************)
\* C7: stop() clears capturing_ and joins the capture thread before it
\* returns: after stop() has returned and until a later start(), no step
\* writes to the ring buffer or changes total_samples_ or overruns_; a
\* stop() called again, or on a session never started, changes nothing
\* and returns.
C7_StopJoinsProducer ==
    /\ [](hist.stopped => (~capturing_ /\ t.st = "none" /\ m.pc = "idle"))
    /\ [][hist.stopped =>
            /\ ring'.write_pos = ring.write_pos
            /\ ring'.buffer_ = ring.buffer_
            /\ accepted' = accepted
            /\ stats'.total_samples_ = stats.total_samples_
            /\ stats'.overruns_ = stats.overruns_]_vars
    /\ [][(Stop /\ (hist.stopped \/ hist.spawned = 0)) =>
            /\ m'.pc = "idle"
            /\ last'.op = "stop"
            /\ UNCHANGED <<ring, accepted, received, config_, capturing_,
                           stats, t>>]_vars

\* C7 witness: a second stop() (nothing left to join) on a session whose
\* capture thread had stored samples before the first stop() joined it
C7_Witness ==
    /\ hist.stopped
    /\ last.op = "stop"
    /\ last.n = 0
    /\ hist.spawned >= 1
    /\ Len(accepted) >= 1

\* C8: start() on a capturing session returns Err(SystemError), spawns no
\* thread and changes no session state; start() on a session that is not
\* capturing returns Ok, sets the flag and spawns exactly one capture
\* thread, and there was none before: at most one capture thread exists.
C8_StartOnlyOnce ==
    /\ [][Start =>
            IF capturing_
            THEN /\ last'.op = "start" /\ ~last'.ok
                 /\ last'.err = "SystemError"
                 /\ hist'.spawned = hist.spawned
                 /\ UNCHANGED <<ring, accepted, received, config_, capturing_,
                                stats, t, m>>
            ELSE /\ last'.op = "start" /\ last'.ok
                 /\ capturing_'
                 /\ hist'.spawned = hist.spawned + 1
                 /\ t.st = "none"
                 /\ t'.st = "running" /\ t'.pc = "init"]_vars
    /\ [](~hist.terminated)

\* C8 witness: a start() refused with SystemError while the capture thread
\* of the second successful start() is inside the callback
C8_Witness ==
    /\ last.op = "start"
    /\ last.err = "SystemError"
    /\ hist.spawned = 2
    /\ t.st = "running"
    /\ t.pc = "cb_right"

\* C9: a backend setup failure (InitializationFailed) and a backend read
\* failure (ReadError) reach the caller as an Err result: every failure
\* that has occurred has been returned to the caller in a Result.
C9_FailureReturnedToCaller == hist.failures \subseteq hist.returned

\* C10: read_samples(buffer, count) returns min(count, available) samples,
\* the oldest ones in capture order, never waits for the producer, adds 1
\* to underruns_ exactly when it returns fewer than count, and with nothing
\* available returns 0 and leaves the ring buffer unchanged.
C10_ReadSamples ==
    /\ [][ReadSamples =>
            /\ last'.op = "read_samples"
            /\ last'.n = Min(last'.count, Len(Unread))
            /\ received' = received \o SubSeq(Unread, 1, last'.n)
            /\ stats'.underruns_ =
                  stats.underruns_ + (IF last'.n < last'.count THEN 1 ELSE 0)
            /\ stats'.total_samples_ = stats.total_samples_
            /\ stats'.overruns_ = stats.overruns_
            /\ (Len(Unread) = 0 => (last'.n = 0 /\ ring' = ring))]_vars
    /\ []((m.pc = "idle" /\ Alive /\ stats.underruns_ < MaxUnderruns)
            => ENABLED ReadSamples)

\* C10 witness: a read_samples that returned some but fewer samples than
\* asked for while the capture thread is inside the callback
C10_Witness ==
    /\ last.op = "read_samples"
    /\ last.n >= 1
    /\ last.n < last.count
    /\ stats.underruns_ >= 1
    /\ t.st = "running"
    /\ t.pc = "cb"
    /\ t.k >= 1

\* the three counters as get_stats returns them
Counters == <<stats.total_samples_, stats.overruns_, stats.underruns_>>

\* C11: across every interleaving of start, stop, producer callbacks,
\* read_samples, peek_samples, available_samples and get_stats, none of
\* total_samples_captured, overruns and underruns ever decreases: no step
\* lowers a counter, get_stats returns the counters of the moment, a
\* get_stats result never exceeds the counters that follow it, and of two
\* get_stats calls in a row the second returns no smaller values.
C11_CountersNeverDecrease ==
    [][/\ \A i \in 1 .. 3 : Counters'[i] >= Counters[i]
       /\ last'.op = "get_stats" =>
              /\ \A i \in 1 .. 3 : last'.out[i] <= Counters'[i]
              /\ GetStats =>
                     /\ last'.out = Counters
                     /\ last.op = "get_stats" =>
                            \A i \in 1 .. 3 : last'.out[i] >= last.out[i]]_vars

\* C11 witness: get_stats observed all three counters at zero on a
\* restarted session, and since then the capture thread stored samples and
\* counted an overrun
C11_Witness ==
    /\ last.op = "get_stats"
    /\ last.out = <<0, 0, 0>>
    /\ stats.total_samples_ >= 2
    /\ stats.overruns_ >= 1
    /\ hist.spawned = 2

\* samples per frame handed to the ring buffer: the mono mix, or left and
\* right
SamplesPerFrame == IF config_.convert_to_mono THEN 1 ELSE 2

\* no producer callback is in progress
CallbacksCompleted == t.pc \notin {"cb", "cb_right"}

\* C12: after any sequence of completed producer callbacks, the number of
\* samples the backend delivered for storing equals the number of samples
\* stored in the ring buffer plus overruns_, in mono and in stereo mode.
C12_DeliveredIsStoredPlusOverruns ==
    CallbacksCompleted =>
        hist.packets * PacketFrames * SamplesPerFrame
            = Len(accepted) + stats.overruns_

\* C13: in stereo passthrough mode the callback never writes a partial
\* stereo frame: a left sample is stored only together with its right
\* sample, so the number of samples ever written is even after every
\* callback.
C13_NoPartialStereoFrame ==
    (~config_.convert_to_mono /\ CallbacksCompleted) => Len(accepted) % 2 = 0

(***************************************************************************)
(* SpecPLA: one PhaseLockAnalyzer, its operations called one after another *)
(* by the thread that owns it.                                             *)
(***************************************************************************)
\* the arguments of add_samples
Blocks == {<<1, 1>>, <<1, 0 - 1>>}

AddSamples ==
    \E samples \in Blocks :
        /\ ~obs.aborted
        /\ obs.added + Len(samples) <= MaxAdded
        /\ pla' = add_samples(pla, samples)
        /\ obs' = [obs EXCEPT !.op = "add_samples", !.added = @ + Len(samples)]
        /\ UNCHANGED <<capture, others>>

Analyze(phase_lock_enabled) ==
    /\ ~obs.aborted
    /\ (phase_lock_enabled /\ pla.has_reference_)
          => pla.frames_since_reference_ < MaxFrames
    /\ phase_lock_enabled => pla.reference_count_ <= ResetCount
    /\ LET r == analyze(pla, phase_lock_enabled)
       IN  /\ pla' = r.a
           /\ obs' = [obs EXCEPT !.op = "analyze",
                                 !.enabled = phase_lock_enabled,
                                 !.state = r.state,
                                 !.updated = phase_lock_enabled,
                                 !.misses =
                                     IF ~phase_lock_enabled
                                           \/ GoodMatch(pla, r.state.best_correlation)
                                     THEN 0
                                     ELSE IF pla.has_reference_ THEN @ + 1
                                     ELSE 1]
    /\ UNCHANGED <<capture, others>>

Reset ==
    /\ ~obs.aborted
    /\ pla' = reset(pla)
    /\ obs' = [obs EXCEPT !.op = "reset", !.updated = FALSE, !.misses = 0]
    /\ UNCHANGED <<capture, others>>

\* set_config(config); a memset past the end of the new phase buffer either
\* goes unnoticed or ends the process
SetConfig ==
    \E config \in PLAConfigs, crash \in BOOLEAN :
        /\ ~obs.aborted
        /\ obs.configured < MaxSetConfigs
        /\ crash => ResetOverflows(pla, config)
        /\ pla' = set_config(pla, config)
        /\ obs' = [obs EXCEPT
                      !.op = "set_config",
                      !.configured = @ + 1,
                      !.updated =
                          IF config.phase_buffer_size
                                /= pla.config_.phase_buffer_size
                          THEN FALSE ELSE @,
                      !.misses = 0,
                      !.overflow = @ \/ ResetOverflows(pla, config),
                      !.aborted = crash]
        /\ UNCHANGED <<capture, others>>

NextPLA ==
    \/ AddSamples
    \/ \E phase_lock_enabled \in BOOLEAN : Analyze(phase_lock_enabled)
    \/ Reset
    \/ SetConfig

InitPLA ==
    /\ RingInit
    /\ SessionInit(FactoryConfig)
    /\ \E config \in PLAConfigs : AnalyzerInit(config)
    /\ OthersInit

SpecPLA == InitPLA /\ [][NextPLA]_vars

(***************************************************************************)
(* Properties of the PhaseLockAnalyzer                                     *)
(***************************************************************************)
\* C14: analyze(false), called in any state, returns has_lock false,
\* best_correlation 0 and read_position (write_pos + phase_buffer_size -
\* display_samples) mod phase_buffer_size, and leaves has_reference false,
\* the phase offset 0 and the correlation history empty.
C14_DisabledResets ==
    (obs.op = "analyze" /\ ~obs.enabled) =>
        /\ obs.state.has_lock = FALSE
        /\ obs.state.best_correlation = 0
        /\ obs.state.read_position =
              (pla.phase_write_pos_ + pla.config_.phase_buffer_size
                   - pla.config_.display_samples)
                  % pla.config_.phase_buffer_size
        /\ pla.has_reference_ = FALSE
        /\ pla.phase_offset_ = 0
        /\ pla.correlation_history_ = << >>

\* C14 witness: analyze(false) on an analyzer that had locked onto a
\* blended reference, returning a window that does not start at index 0
C14_Witness ==
    /\ obs.op = "analyze" /\ ~obs.enabled
    /\ pla.reference_count_ >= 1
    /\ pla.last_best_correlation_ > pla.config_.correlation_threshold
    /\ pla.target_phase_offset_ /= 0
    /\ obs.state.read_position /= 0

\* the analyzer as analyze(true) searches it: with the reference it has, or
\* reseeded when it has none
Searched(a) == IF a.has_reference_ THEN a ELSE update_reference_window(a)

\* C15: after every analyze(true) call the returned has_lock is true exactly
\* when the returned best_correlation is strictly greater than
\* correlation_threshold; the cursor target of the call is the matched
\* offset (search_start + best_offset) mod phase_buffer_size with a lock
\* (the correlation at that offset is the returned one) and the most recent
\* window (write_pos - display_samples) mod phase_buffer_size without.
C15_LockIffAboveThreshold ==
    [][(obs'.op = "analyze" /\ obs'.enabled /\ Analyze(TRUE)) =>
        LET size == pla.config_.phase_buffer_size
            search_start ==
                (pla.phase_write_pos_ - pla.config_.display_samples
                     - SEARCH_RANGE) % size
            found == FindBest(Searched(pla))
        IN  /\ obs'.state.has_lock <=>
                  (obs'.state.best_correlation
                       > pla.config_.correlation_threshold)
            /\ obs'.state.best_correlation = found.max_correlation
            /\ obs'.state.has_lock =>
                  /\ pla'.target_phase_offset_
                        = (search_start + found.best_offset) % size
                  /\ compute_correlation(Searched(pla), found.best_offset,
                                         search_start)
                        = obs'.state.best_correlation
            /\ ~obs'.state.has_lock =>
                  pla'.target_phase_offset_
                      = (pla.phase_write_pos_ - pla.config_.display_samples)
                            % size]_vars

\* C15 witness: analyze(true) returned a lock with a correlation below 1,
\* its target is not the most recent window, and the call before it had
\* returned no lock
C15_Witness ==
    /\ obs.op = "analyze" /\ obs.enabled
    /\ obs.state.has_lock
    /\ obs.state.best_correlation < One
    /\ pla.target_phase_offset_ /= RecentWindow(pla)
    /\ Len(pla.correlation_history_) = 2
    /\ pla.correlation_history_[1] <= pla.config_.correlation_threshold

\* C16: on every analyze(true) call other than the very first update after
\* construction, reset() or analyze(false), the read cursor moves from its
\* previous position toward the target by (1 - phase_smoothing) of the
\* signed shortest circular distance modulo phase_buffer_size, truncated to
\* an integer; only on that very first update does it jump to the target.
C16_CursorSmoothed ==
    [][(obs'.op = "analyze" /\ obs'.enabled /\ Analyze(TRUE)) =>
        LET size == pla.config_.phase_buffer_size
            half == size \div 2
            target == pla'.target_phase_offset_
        IN  IF obs.updated
            THEN \E d \in (0 - half) .. half :
                    /\ (d - (target - pla.phase_offset_)) % size = 0
                    /\ pla'.phase_offset_
                          = (pla.phase_offset_
                                + Trunc(d * (One - pla.config_.phase_smoothing),
                                        One)) % size
            ELSE pla'.phase_offset_ = target]_vars

\* the newest correlation_window_size samples of the phase buffer, oldest
\* first, as reference values
NewestSamples(a) ==
    LET size == a.config_.phase_buffer_size
        W == a.config_.correlation_window_size
    IN  [i \in 0 .. (W - 1) |->
            One * a.phase_buffer_[(a.phase_write_pos_ + size - W + i) % size]]

\* C17: after more than NO_MATCH_FRAMES (480 in the source) analyze(true)
\* calls in a row without a good match on one reference, the reference is
\* invalid: has_reference false, reference_count 0 and the no-match counter
\* 0; and an analyze(true) call that finds no reference takes the newest
\* correlation_window_size samples as the reference before it correlates:
\* the correlation it returns is the best one against that reference.
C17_ExpiredReferenceReseeded ==
    /\ [][(obs'.op = "analyze" /\ obs'.enabled /\ Analyze(TRUE)) =>
            (obs'.misses > NO_MATCH_FRAMES =>
                /\ pla'.has_reference_ = FALSE
                /\ pla'.reference_count_ = 0
                /\ pla'.frames_since_good_match_ = 0)]_vars
    /\ [][(obs'.op = "analyze" /\ obs'.enabled /\ ~pla.has_reference_
               /\ Analyze(TRUE)) =>
            LET seeded == [pla EXCEPT !.reference_window_ = NewestSamples(pla),
                                      !.has_reference_ = TRUE]
            IN  /\ obs'.state.best_correlation = FindBest(seeded).max_correlation
                /\ pla'.frames_since_reference_ = 1
                /\ obs'.misses = 1 =>
                       pla'.reference_window_ = NewestSamples(pla)]_vars

\* C17 witness: an analyze(true) call has reseeded, from samples that are
\* not silence, a reference that had expired (the correlation history was
\* not cleared and the configuration never changed, so the reference was
\* lost by expiry)
C17_Witness ==
    /\ obs.op = "analyze" /\ obs.enabled
    /\ obs.configured = 0
    /\ pla.has_reference_
    /\ pla.frames_since_reference_ = 1
    /\ Len(pla.correlation_history_) >= 2
    /\ \E i \in DOMAIN pla.reference_window_ : pla.reference_window_[i] /= 0

\* C18: with reference_mode ACCUMULATOR the accumulation restarts after
\* accumulator_reset_count matches, so reference_count never exceeds
\* accumulator_reset_count.
C18_AccumulatorRestarts ==
    pla.config_.reference_mode = "ACCUMULATOR" =>
        pla.reference_count_ <= pla.config_.accumulator_reset_count

\* C19: a set_config that changes correlation_window_size or
\* phase_buffer_size leaves has_reference false and reference_count 0, and
\* only an analyze(true) call, which reseeds, brings a reference back; a
\* set_config that changes neither leaves has_reference, reference_count,
\* the write position, the cursor and the buffer contents as they were.
C19_SetConfigForcesReseed ==
    /\ [][obs'.op = "set_config" =>
            IF \/ pla'.config_.correlation_window_size
                     /= pla.config_.correlation_window_size
               \/ pla'.config_.phase_buffer_size /= pla.config_.phase_buffer_size
            THEN /\ pla'.has_reference_ = FALSE
                 /\ pla'.reference_count_ = 0
            ELSE /\ pla'.has_reference_ = pla.has_reference_
                 /\ pla'.reference_count_ = pla.reference_count_
                 /\ pla'.phase_write_pos_ = pla.phase_write_pos_
                 /\ pla'.phase_offset_ = pla.phase_offset_
                 /\ pla'.phase_buffer_ = pla.phase_buffer_]_vars
    /\ [][(~pla.has_reference_ /\ pla'.has_reference_) =>
            (obs'.op = "analyze" /\ obs'.enabled)]_vars

\* C19 witness: set_config has dropped the reference of an analyzer that
\* held a lock (its last analyze(true) was above the threshold and left a
\* reference), without restarting the phase buffer
C19_Witness ==
    /\ obs.op = "set_config" /\ ~obs.aborted
    /\ ~pla.has_reference_
    /\ pla.reference_count_ = 0
    /\ pla.phase_write_pos_ > 0
    /\ Len(pla.correlation_history_) >= 1
    /\ pla.frames_since_good_match_ >= 1
    /\ pla.last_best_correlation_ > pla.config_.correlation_threshold

\* C20: after construction and after every set_config the configuration in
\* effect has correlation_window_size <= phase_buffer_size and
\* display_samples + SEARCH_RANGE (1024 in the source) < phase_buffer_size.
C20_ConfigValidated ==
    /\ pla.config_.correlation_window_size <= pla.config_.phase_buffer_size
    /\ pla.config_.display_samples + SEARCH_RANGE < pla.config_.phase_buffer_size

(***************************************************************************)
(* SpecFFT: the round trip of tests/test_fft.cpp, "signal = original;      *)
(* fft(signal); ifft(signal);", on vectors of every length in FftSizes     *)
(***************************************************************************)
\* the margin 1e-5 of the test: one unit of the model
Tolerance == 1

\* component values: 0, small values, and a value whose unit in the last
\* place is larger than the tolerance
Small == 2 ^ 2
Big == 2 ^ (MantBits + 2)
Vectors ==
    UNION {[0 .. (n - 1) -> {0, Small, 0 - Small, Big} \X {0, 0 - Small}] :
              n \in FftSizes}

InitFFT ==
    /\ RingInit
    /\ SessionInit(FactoryConfig)
    /\ AnalyzerInit(SomePLAConfig)
    /\ FAInit([i \in Instances |-> SomeFAConfig])
    /\ RestInit(SFDefault)
    /\ original \in Vectors
    /\ signal = original
    /\ step = "none"

Fft ==
    /\ step = "none"
    /\ signal' = fft(signal)
    /\ step' = "fft"
    /\ UNCHANGED <<capture, analyzer, original, frequency, rest>>

Ifft ==
    /\ step = "fft"
    /\ signal' = ifft(signal)
    /\ step' = "ifft"
    /\ UNCHANGED <<capture, analyzer, original, frequency, rest>>

NextFFT == Fft \/ Ifft

SpecFFT == InitFFT /\ [][NextFFT]_vars

\* every component of signal is within the tolerance of original's
Recovered ==
    \A i \in DOMAIN original :
        /\ Abs(signal[i][1] - original[i][1]) <= Tolerance
        /\ Abs(signal[i][2] - original[i][2]) <= Tolerance

MaxCalls == 3

\* the sample blocks given to process_samples
FABlocks == {<< >>, <<10>>, <<0, 0, 10, 0 - 10, 0, 10, 0 - 10, 0>>}

\* instance i's process_samples(samples, count)
ProcessSamples ==
    \E i \in Instances, samples \in FABlocks :
        /\ ~fobs.aborted
        /\ fobs.calls < MaxCalls
        /\ \E r \in process_samples(fa[i], samples_since_analysis, samples),
              ra \in process_samples(fobs.alone.f, fobs.alone.since, samples) :
              /\ fa' = [fa EXCEPT ![i] = r.f]
              /\ samples_since_analysis' = r.since
              /\ fobs' = [fobs EXCEPT
                            !.op = "process_samples",
                            !.who = i,
                            !.analyzed = r.analyzed,
                            !.had = fobs.received[i] + Len(samples),
                            !.aborted = r.aborted,
                            !.calls = @ + 1,
                            !.received[i] =
                                IF r.analyzed THEN 0 ELSE @ + Len(samples),
                            !.alone =
                                IF i = "A"
                                THEN [f |-> ra.f, since |-> ra.since,
                                      aborted |-> ra.aborted]
                                ELSE @]
        /\ UNCHANGED <<capture, analyzer, roundtrip, rest>>

\* instance i's set_config(config)
SetConfigFA ==
    \E i \in Instances, config \in FAConfigs :
        /\ ~fobs.aborted
        /\ fobs.calls < MaxCalls
        /\ fa' = [fa EXCEPT ![i] = FA_set_config(@, config)]
        /\ fobs' = [fobs EXCEPT
                      !.op = "set_config",
                      !.who = i,
                      !.calls = @ + 1,
                      !.requested[i] = config.fft_size,
                      !.alone.f = IF i = "A" THEN FA_set_config(@, config) ELSE @]
        /\ UNCHANGED <<capture, analyzer, roundtrip, samples_since_analysis, rest>>

NextFA == ProcessSamples \/ SetConfigFA

InitFA ==
    /\ RingInit
    /\ SessionInit(FactoryConfig)
    /\ AnalyzerInit(SomePLAConfig)
    /\ NoRoundTrip
    /\ \E config \in FAConfigs :
          FAInit([i \in Instances |-> IF i = "A" THEN config ELSE SomeFAConfig])
    /\ RestInit(SFDefault)

SpecFA == InitFA /\ [][NextFA]_vars

(***************************************************************************)
(* Properties of the FrequencyAnalyzer                                     *)
(***************************************************************************)
\* C21: a process_samples call on an instance runs an analysis exactly when
\* the samples this instance has received since its own previous analysis
\* (or its construction), those of the call included, number at least
\* fft_size / 4; samples given to another instance do not count.
C21_AnalysisPerInstance ==
    (fobs.op = "process_samples" /\ ~fobs.aborted) =>
        (fobs.analyzed <=> fobs.had >= fa[fobs.who].config_.fft_size \div 4)

\* C22: after construction and after every set_config the fft_size in
\* effect is the least power of two that is not below the requested
\* fft_size, the input buffer, the FFT working buffer and the magnitude
\* spectrum have fft_size elements and the write position is in
\* 0 .. fft_size - 1; is_power_of_two(n) is true exactly for the powers of
\* two 2^k, k >= 0, and false for 0.
C22_FftSizeRoundedUp ==
    LET PowersOfTwo == {2 ^ k : k \in 0 .. (SizeBits - 1)}
    IN  /\ \A n \in 0 .. (SizeMod - 1) : is_power_of_two(n) <=> n \in PowersOfTwo
        /\ \A i \in Instances :
              LET size == fa[i].config_.fft_size
              IN  /\ size \in PowersOfTwo
                  /\ size >= fobs.requested[i]
                  /\ \A n \in PowersOfTwo : n >= fobs.requested[i] => n >= size
                  /\ DOMAIN fa[i].audio_buffer_ = 0 .. (size - 1)
                  /\ DOMAIN fa[i].fft_buffer_ = 0 .. (size - 1)
                  /\ DOMAIN fa[i].magnitude_spectrum = 0 .. (size - 1)
                  /\ fa[i].buffer_write_pos_ \in 0 .. (size - 1)

\* C22 witness: an instance that held a sample was asked by set_config for
\* an fft_size of 5 and now works with 8
C22_Witness ==
    /\ fobs.op = "set_config"
    /\ fobs.requested[fobs.who] = 5
    /\ fa[fobs.who].config_.fft_size = 8
    /\ fobs.received[fobs.who] > 0
    /\ \A i \in DOMAIN fa[fobs.who].audio_buffer_ : fa[fobs.who].audio_buffer_[i] = 0

\* C23: after any sequence of process_samples and set_config calls,
\* spectrum_history and peak_history have the same length, which is at most
\* history_size.
C23_HistoriesBounded ==
    \A i \in Instances :
        /\ Len(fa[i].spectrum_history_) <= fa[i].config_.history_size
        /\ Len(fa[i].peak_history_) <= fa[i].config_.history_size
        /\ Len(fa[i].spectrum_history_) = Len(fa[i].peak_history_)

\* C24: after an analysis, peaks holds only bins of the first half of the
\* spectrum that are above peak_threshold and above both neighbours, at most
\* max_peaks of them, in order of non-increasing magnitude; they are the
\* largest such local maxima, each with frequency bin * sample_rate /
\* fft_size; dominant_frequency is the first peak's frequency, or 0 without
\* peaks.
C24_PeaksAreLargestMaxima ==
    (fobs.op = "process_samples" /\ fobs.analyzed /\ ~fobs.aborted) =>
        LET f == fa[fobs.who]
            mag == f.magnitude_spectrum
            n == f.config_.fft_size
            maxima == {b \in 1 .. (n \div 2 - 1) :
                          /\ mag[b] > f.config_.peak_threshold
                          /\ mag[b] > mag[b - 1]
                          /\ mag[b] > mag[b + 1]}
            bins == {f.peaks[k].bin : k \in DOMAIN f.peaks}
        IN  /\ bins \subseteq maxima
            /\ Len(f.peaks) <= f.config_.max_peaks
            /\ Cardinality(bins) = Len(f.peaks)
            /\ Len(f.peaks) = Min(f.config_.max_peaks, Cardinality(maxima))
            /\ \A k \in DOMAIN f.peaks :
                  /\ f.peaks[k].magnitude = mag[f.peaks[k].bin]
                  /\ f.peaks[k].frequency
                        = (f.peaks[k].bin * f.config_.sample_rate * One) \div n
                  /\ k > 1 => f.peaks[k - 1].magnitude >= f.peaks[k].magnitude
                  /\ \A b \in maxima \ bins : mag[b] <= f.peaks[k].magnitude
            /\ f.dominant_frequency
                  = IF f.peaks = << >> THEN 0 ELSE f.peaks[1].frequency

\* C25: instances share no mutable state: the state and the outputs of
\* analyzer A are those of a run in which A receives the same calls and the
\* calls on analyzer B are left out.
C25_InstancesIndependent ==
    ~fobs.aborted => /\ ~fobs.alone.aborted
                     /\ fa["A"] = fobs.alone.f

(***************************************************************************)
(* SpecLegacy: capture_data and the record threads it detaches             *)
(***************************************************************************)
\* capture_data is called at most this often
MaxCaptures == 2
\* read_sink succeeds at most this often in one record thread
MaxReads == 2

\* legacy[i] is the i-th capture_data call: what it returned, and its
\* record thread: pc is "none" (no thread), "create", "read", "callback"
\* or "done"; result is what record_loop returned.

\* capture_data: std::thread's constructor either throws (caught: Err
\* SystemError) or starts the thread, which is detached, and Ok is returned
CaptureData ==
    /\ Len(legacy) < MaxCaptures
    /\ \E thrown \in BOOLEAN :
        legacy' = Append(legacy,
            [returned |-> IF thrown THEN "Err" ELSE "Ok",
             error |-> IF thrown THEN "SystemError" ELSE "none",
             pc |-> IF thrown THEN "none" ELSE "create",
             opened |-> FALSE, reads |-> 0, callbacks |-> 0,
             stopped |-> FALSE, result |-> "none",
             result_error |-> "none", reported |-> FALSE])
    /\ UNCHANGED <<capture, analyzer, roundtrip, frequency, sf, sobs, pk, monad>>

\* an end of record_loop with Err that hands one more packet to the callback
FailedAfterCallback(call, error) ==
    [call EXCEPT !.pc = "done", !.result = "Err", !.result_error = error,
                 !.reported = TRUE, !.callbacks = @ + 1]

\* the end of record_loop with Err, and the thread's lambda printing
\* "Audio capture error in background thread"
Failed(call, error) ==
    [call EXCEPT !.pc = "done", !.result = "Err", !.result_error = error,
                 !.reported = TRUE]

\* record_loop: PulseAudioWrapper::create(), pa_simple_new failing or not
Create(i) ==
    /\ legacy[i].pc = "create"
    /\ \E pulse_simple_api \in BOOLEAN :
        legacy' = [legacy EXCEPT ![i] =
            IF pulse_simple_api
            THEN [@ EXCEPT !.opened = TRUE, !.pc = "read"]
            ELSE Failed(@, "InitializationFailed")]
    /\ UNCHANGED <<capture, analyzer, roundtrip, frequency, sf, sobs, pk, monad>>

\* record_loop: pulse->read_sink(), pa_simple_read failing or not
ReadSink(i) ==
    /\ legacy[i].pc = "read"
    /\ \E read \in BOOLEAN :
        /\ read => legacy[i].reads < MaxReads
        /\ legacy' = [legacy EXCEPT ![i] =
              IF read
              THEN [@ EXCEPT !.reads = @ + 1, !.pc = "callback"]
              ELSE Failed(@, "ReadError")]
    /\ UNCHANGED <<capture, analyzer, roundtrip, frequency, sf, sobs, pk, monad>>

\* record_loop: playing = callback(read_result.unwrap()), and the loop's
\* test of playing
InvokeCallback(i) ==
    /\ legacy[i].pc = "callback"
    /\ \E playing \in BOOLEAN :
        legacy' = [legacy EXCEPT ![i] =
            IF playing
            THEN [@ EXCEPT !.callbacks = @ + 1, !.pc = "read"]
            ELSE [@ EXCEPT !.callbacks = @ + 1, !.stopped = TRUE,
                           !.pc = "done", !.result = "Ok"]]
    /\ UNCHANGED <<capture, analyzer, roundtrip, frequency, sf, sobs, pk, monad>>

NextLegacy ==
    \/ CaptureData
    \/ \E i \in DOMAIN legacy : Create(i)
    \/ \E i \in DOMAIN legacy : ReadSink(i)
    \/ \E i \in DOMAIN legacy : InvokeCallback(i)

SpecLegacy == Init /\ [][NextLegacy]_vars

\* C26: a capture_data call whose backend could not be opened has returned
\* Err, and a call that has returned Ok is one whose backend was opened once
\* its record thread has passed the opening.
C26_InitFailureReturned ==
    \A i \in DOMAIN legacy :
        /\ legacy[i].result_error = "InitializationFailed"
              => legacy[i].returned = "Err"
        /\ (legacy[i].returned = "Ok" /\ legacy[i].pc /= "create")
              => legacy[i].opened

(***************************************************************************)
(* SpecFilters: one SimpleFilters object used by one thread                *)
(***************************************************************************)
\* process, reset and set_config are called at most this often altogether
MaxFilterCalls == 4

\* the sample blocks given to process
FilterBlocks == {<<50>>, <<0 - 50>>, <<120, 0>>}

\* process(samples, count)
ProcessFilters ==
    /\ sobs.calls < MaxFilterCalls
    /\ \E samples \in FilterBlocks :
        LET r == Filters_process(sf, samples)
        IN  /\ sf' = r.s
            /\ sobs' = [op |-> "process", pre |-> sf, out |-> r.samples,
                        calls |-> sobs.calls + 1]
    /\ UNCHANGED <<capture, analyzer, roundtrip, frequency, legacy, pk, monad>>

\* reset()
ResetFilters ==
    /\ sobs.calls < MaxFilterCalls
    /\ sf' = Filters_reset(sf)
    /\ sobs' = [op |-> "reset", pre |-> sf, out |-> << >>,
                calls |-> sobs.calls + 1]
    /\ UNCHANGED <<capture, analyzer, roundtrip, frequency, legacy, pk, monad>>

\* set_config(config)
SetConfigFilters ==
    /\ sobs.calls < MaxFilterCalls
    /\ \E config \in SFConfigs :
        /\ sf' = Filters_set_config(sf, config)
        /\ sobs' = [op |-> "set_config", pre |-> sf, out |-> << >>,
                    calls |-> sobs.calls + 1]
    /\ UNCHANGED <<capture, analyzer, roundtrip, frequency, legacy, pk, monad>>

NextFilters == ProcessFilters \/ ResetFilters \/ SetConfigFilters

InitFilters ==
    /\ RingInit /\ SessionInit(FactoryConfig) /\ AnalyzerInit(SomePLAConfig)
    /\ NoRoundTrip
    /\ FAInit([i \in Instances |-> SomeFAConfig])
    /\ \E config \in SFConfigs : RestInit(config)

SpecFilters == InitFilters /\ [][NextFilters]_vars

Biquads == {"highpass_", "lowpass_", "deesser_detector_"}
History == {"x1", "x2", "y1", "y2"}
Coefficients == {"a0", "a1", "a2", "b0", "b1", "b2"}

\* C29: after reset() the input and output histories x1, x2, y1, y2 of the
\* high-pass, the low-pass and the de-esser detector filter are 0 and the
\* de-esser envelope is 0, while every filter coefficient and the
\* configuration are what they were before the call.
C29_ResetClearsHistory ==
    sobs.op = "reset" =>
        /\ \A b \in Biquads :
              /\ \A h \in History : sf[b][h] = 0
              /\ \A k \in Coefficients : sf[b][k] = sobs.pre[b][k]
        /\ sf.deesser_envelope_ = 0
        /\ sf.config_ = sobs.pre.config_

\* reset() called on filters that all hold history and a raised envelope
C29_Witness ==
    /\ sobs.op = "reset"
    /\ \A b \in Biquads : sobs.pre[b].x1 /= 0 /\ sobs.pre[b].y1 /= 0
    /\ \E b \in Biquads : sobs.pre[b].x2 /= 0 /\ sobs.pre[b].y2 /= 0
    /\ sobs.pre.deesser_envelope_ > 0
    /\ \E b \in Biquads : sobs.pre[b].a1 /= 0

(***************************************************************************)
(* SpecPLA: the correlation history                                        *)
(***************************************************************************)
\* C27: every analyze(true) call appends the best_correlation it returns to
\* correlation_history, dropping the oldest entry when the history already
\* holds max_history_ entries; the history never holds more than
\* max_history_ entries and is empty after analyze(false) and after reset().
C27_HistoryRolls ==
    [][/\ Len(pla'.correlation_history_) <= max_history_
       /\ (obs'.op = "analyze" /\ obs'.enabled) =>
             pla'.correlation_history_ =
                 Append(IF Len(pla.correlation_history_) < max_history_
                        THEN pla.correlation_history_
                        ELSE Tail(pla.correlation_history_),
                        obs'.state.best_correlation)
       /\ (obs'.op = "analyze" /\ ~obs'.enabled) =>
             pla'.correlation_history_ = << >>
       /\ obs'.op = "reset" => pla'.correlation_history_ = << >>]_vars

\* the third analyze(true) call in a row on one reference: the history is
\* full, its oldest entry has been evicted, and the entries differ
C27_Witness ==
    /\ obs.op = "analyze" /\ obs.enabled
    /\ pla.has_reference_
    /\ pla.frames_since_reference_ > max_history_
    /\ Len(pla.correlation_history_) = max_history_
    /\ pla.correlation_history_[1] /= pla.correlation_history_[max_history_]
    /\ pla.correlation_history_[max_history_] = obs.state.best_correlation

(***************************************************************************)
(* SpecSilence: one PhaseLockAnalyzer that is given sound and silence      *)
(***************************************************************************)
\* add_samples with phase_buffer_size zeros: the whole buffer turns silent
AddSilence ==
    /\ ~obs.aborted
    /\ pla' = add_samples(pla, [i \in 1 .. pla.config_.phase_buffer_size |-> 0])
    /\ obs' = [obs EXCEPT !.op = "add_samples"]
    /\ UNCHANGED <<capture, others>>

NextSilence ==
    \/ AddSamples
    \/ AddSilence
    \/ \E phase_lock_enabled \in BOOLEAN : Analyze(phase_lock_enabled)

SpecSilence == Init /\ [][NextSilence]_vars

\* every sample of f is zero
Silent(f) == \A i \in DOMAIN f : f[i] = 0

\* the reference that analyze(true) called on a compares the windows with
ReferenceUsed(a) ==
    IF a.has_reference_ THEN a.reference_window_
    ELSE update_reference_window(a).reference_window_

\* C28: when analyze(true) is called with a positive correlation_threshold
\* while the phase buffer holds only zeros or the reference compared with
\* has zero energy, every correlation it computes is 0, it returns
\* best_correlation 0 and has_lock false, and the reference is not blended
\* with a match (reference_window_ is the one compared with and
\* reference_count_ does not grow).
C28_SilenceNeverLocks ==
    [][(/\ obs'.op = "analyze" /\ obs'.enabled
        /\ pla.config_.correlation_threshold > 0
        /\ (Silent(pla.phase_buffer_) \/ Silent(ReferenceUsed(pla))))
       => /\ \A offset \in 0 .. (SEARCH_RANGE - 1) :
                compute_correlation(
                    [pla EXCEPT !.reference_window_ = ReferenceUsed(pla)],
                    offset, SearchStart(pla)) = 0
          /\ obs'.state.best_correlation = 0
          /\ ~obs'.state.has_lock
          /\ pla'.reference_window_ = ReferenceUsed(pla)
          /\ pla'.reference_count_ <= pla.reference_count_]_vars

\* analyze(true) has compared a silent buffer with a reference that holds
\* sound and is kept
C28_Witness ==
    /\ obs.op = "analyze" /\ obs.enabled
    /\ Silent(pla.phase_buffer_)
    /\ pla.has_reference_
    /\ ~Silent(pla.reference_window_)
    /\ pla.frames_since_reference_ > 1
    /\ obs.state.best_correlation = 0
    /\ ~obs.state.has_lock

\* analyze(true) has compared a buffer that holds sound with a silent
\* reference
C28_SilentReference ==
    /\ obs.op = "analyze" /\ obs.enabled
    /\ ~Silent(pla.phase_buffer_)
    /\ pla.has_reference_
    /\ Silent(pla.reference_window_)
    /\ pla.frames_since_reference_ > 1

(***************************************************************************)
(* SpecLegacy: the record loop and its callback                            *)
(***************************************************************************)
\* C37: each record loop invokes the callback once per packet read; once
\* an invocation has returned false the loop has ended with Ok and invokes
\* the callback no more; a failed read ends the loop with Err and no
\* invocation follows it.
C37_LoopStopsWithCallback ==
    [][\A i \in DOMAIN legacy' :
          LET loop == legacy'[i]
          IN  /\ loop.reads = loop.callbacks + (IF loop.pc = "callback" THEN 1 ELSE 0)
              /\ loop.stopped <=> loop.result = "Ok"
              /\ loop.stopped => loop.pc = "done"
              /\ loop.result_error = "ReadError" =>
                    loop.pc = "done" /\ loop.result = "Err"
              /\ (i \in DOMAIN legacy /\ legacy[i].pc = "done") =>
                    loop = legacy[i]]_vars

\* a loop that read two packets, invoked the callback for each, and ended
\* with Ok on the second invocation returning false
C37_Witness ==
    \E i \in DOMAIN legacy :
        /\ legacy[i].stopped /\ legacy[i].result = "Ok"
        /\ legacy[i].reads = MaxReads /\ legacy[i].callbacks = MaxReads

\* a loop ended by a failed read after one packet
C37_ReadFailed ==
    \E i \in DOMAIN legacy :
        /\ legacy[i].result_error = "ReadError"
        /\ legacy[i].reads = 1 /\ legacy[i].callbacks = 1

(***************************************************************************)
(* SpecPeaks: find_peaks called on a short magnitude spectrum              *)
(***************************************************************************)
\* the sizes of the spectra searched
PeakSizes == {0, 1, 2, 3, 4, 6}

\* the spectra: magnitudes 0, 1 or 2 in each bin
Spectra ==
    UNION {[1 .. n -> 0 .. 2] : n \in PeakSizes}

InitPeaks ==
    /\ RingInit /\ SessionInit(FactoryConfig) /\ AnalyzerInit(SomePLAConfig)
    /\ NoRoundTrip
    /\ FAInit([i \in Instances |-> SomeFAConfig])
    /\ legacy = << >>
    /\ sf = SimpleFilters(SFDefault)
    /\ sobs = [op |-> "none", pre |-> SimpleFilters(SFDefault), out |-> << >>,
               calls |-> 0]
    /\ monad = NoValue
    /\ \E spectrum \in Spectra, threshold \in 0 .. 1, max_peaks \in 1 .. 2 :
          pk = [NoSearch EXCEPT !.magnitude_spectrum = spectrum,
                                !.threshold = threshold,
                                !.max_peaks = max_peaks]

\* find_peaks(magnitude_spectrum, sample_rate, threshold, max_peaks); a
\* loop that runs off the end of the spectrum ends the process
FindPeaks ==
    /\ ~pk.called
    /\ LET found == find_peaks([i \in 0 .. (Len(pk.magnitude_spectrum) - 1) |->
                                   pk.magnitude_spectrum[i + 1]],
                               16, pk.threshold, pk.max_peaks)
       IN  \/ /\ ~found.in_range
              /\ pk' = [pk EXCEPT !.called = TRUE, !.aborted = TRUE]
           \/ /\ found.in_range
              /\ \E peaks \in found.results :
                    pk' = [pk EXCEPT !.called = TRUE, !.peaks = peaks]
    /\ UNCHANGED <<capture, analyzer, roundtrip, frequency, legacy, sf, sobs,
                   monad>>

NextPeaks == FindPeaks

SpecPeaks == InitPeaks /\ [][NextPeaks]_vars

\* C40: for every spectrum length find_peaks reads the spectrum only at
\* indices below its size, and for the lengths 0 to 3 it returns no peaks.
C40_ReadsInsideSpectrum ==
    pk.called =>
        /\ ~pk.aborted
        /\ Len(pk.magnitude_spectrum) <= 3 => pk.peaks = << >>

(***************************************************************************)
(* The ring buffer's query functions next to its five operations           *)
(***************************************************************************)
\* available_read(), available_write(), empty(), full(): const members that
\* load both cursors and store nothing
Query ==
    /\ \E q \in {"available_read", "available_write", "empty", "full"} :
          last' = [NoCall EXCEPT
                     !.op = q,
                     !.pre = ring,
                     !.n = CASE q = "available_read" -> available_read(ring)
                             [] q = "available_write" -> available_write(ring)
                             [] OTHER -> 0,
                     !.ok = CASE q = "empty" -> empty(ring)
                              [] q = "full" -> full(ring)
                              [] OTHER -> FALSE]
    /\ UNCHANGED <<ring, accepted, received, p, c, session, analyzer, others>>

NextQueries == Next \/ Query

SpecQueries == Init /\ [][NextQueries]_vars

\* the slots of buffer b that hold unread elements: read_pos up to, not
\* including, write_pos
UnreadSlots(b) ==
    {k \in Index : BitAnd(USub(k, b.read_pos), mask_)
                       < ReadAvailable(b.write_pos, b.read_pos)}

ProducerOps == {"try_write", "write_bulk"}
ConsumerOps == {"try_read", "read_bulk"}
QueryOps == {"peek_bulk", "available_read", "available_write", "empty", "full"}

\* C32: write_pos is modified only by try_write and write_bulk, read_pos
\* only by try_read and read_bulk; peek_bulk, available_read,
\* available_write, empty and full modify neither cursor nor any slot; and
\* a producer operation never writes a slot of the unread range
\* read_pos..write_pos.
C32_FrameEffects ==
    /\ last.op \notin ProducerOps => ring.write_pos = last.pre.write_pos
    /\ last.op \notin ConsumerOps => ring.read_pos = last.pre.read_pos
    /\ last.op \in QueryOps => ring = last.pre
    /\ last.op \in ProducerOps =>
          \A k \in UnreadSlots(last.pre) : ring.buffer_[k] = last.pre.buffer_[k]

\* a write_bulk that wrapped around the end of the array while unread
\* elements were in the buffer
C32_Witness ==
    /\ last.op = "write_bulk"
    /\ last.n >= 2
    /\ ring.write_pos < last.pre.write_pos
    /\ UnreadSlots(last.pre) # {}

(***************************************************************************)
(* core::Result<T, E> and core::Option<T>                                  *)
(* A Result is [is_ok_, value_] with value_ = [index, value, error], the   *)
(* std::variant<T, E>; an Option is [value_] with value_ = [has_value,     *)
(* value], the std::optional<T>.  T is int, E is std::string.              *)
(***************************************************************************)
\* Result::Ok(value): in_place_index<0>, is_ok_ = true
Ok(value) ==
    [kind |-> "Result", is_ok_ |-> TRUE,
     value_ |-> [index |-> 0, value |-> value, error |-> ""]]

\* Result::Err(error): in_place_index<1>, is_ok_ = false
Err(error) ==
    [kind |-> "Result", is_ok_ |-> FALSE,
     value_ |-> [index |-> 1, value |-> 0, error |-> error]]

\* Option::Some(value)
Some(value) == [kind |-> "Option", value_ |-> [has_value |-> TRUE, value |-> value]]

\* Option::None()
None == [kind |-> "Option", value_ |-> [has_value |-> FALSE, value |-> 0]]

is_ok(r) == r.is_ok_
is_some(o) == o.value_.has_value

\* the functions handed to map: [](int x) { return x * 2; } and
\* [](int x) { return x + 1; }
MapFuncs == {"twice", "next"}
Apply(func, x) == IF func = "twice" THEN x * 2 ELSE x + 1

\* the functions handed to and_then: divide (Err("division by zero") for 0,
\* Ok(100 / x) otherwise) and one that always fails
ResultFuncs == {"divide", "fail"}
ApplyResult(func, x) ==
    IF func = "divide"
    THEN IF x = 0 THEN Err("division by zero") ELSE Ok(100 \div x)
    ELSE Err("failed")

\* safe_divide (None for 0, Some(100 / x) otherwise) and one that always
\* returns None
OptionFuncs == {"safe_divide", "nothing"}
ApplyOption(func, x) ==
    IF func = "safe_divide"
    THEN IF x = 0 THEN None ELSE Some(100 \div x)
    ELSE None

\* a map that calls func whatever the Result holds
Result_map_always(r, func) ==
    [out |-> Ok(Apply(func, r.value_.value)), invoked |-> 1]

\* Result::map(func): out is the Result returned, invoked the number of
\* calls of func
Result_map(r, func) ==
    IF is_ok(r)
    THEN [out |-> Ok(Apply(func, r.value_.value)), invoked |-> 1]
    ELSE [out |-> Err(r.value_.error), invoked |-> 0]

\* Result::and_then(func)
Result_and_then(r, func) ==
    IF is_ok(r)
    THEN [out |-> ApplyResult(func, r.value_.value), invoked |-> 1]
    ELSE [out |-> Err(r.value_.error), invoked |-> 0]

\* Result::unwrap_or(default_value)
Result_unwrap_or(r, default_value) ==
    IF is_ok(r) THEN r.value_.value ELSE default_value

\* Option::map(func)
Option_map(o, func) ==
    IF is_some(o)
    THEN [out |-> Some(Apply(func, o.value_.value)), invoked |-> 1]
    ELSE [out |-> None, invoked |-> 0]

\* Option::and_then(func)
Option_and_then(o, func) ==
    IF is_some(o)
    THEN [out |-> ApplyOption(func, o.value_.value), invoked |-> 1]
    ELSE [out |-> None, invoked |-> 0]

\* Option::unwrap_or(default_value)
Option_unwrap_or(o, default_value) ==
    IF is_some(o) THEN o.value_.value ELSE default_value

\* the longest chain of operations on one value
MaxOps == 3
\* the values and errors a chain starts from
Values == 0 .. 3
Errors == {"error", "failed"}
Defaults == {0, 99}

InitMonad ==
    /\ RingInit /\ SessionInit(FactoryConfig) /\ AnalyzerInit(SomePLAConfig)
    /\ NoRoundTrip
    /\ FAInit([i \in Instances |-> SomeFAConfig])
    /\ legacy = << >>
    /\ sf = SimpleFilters(SFDefault)
    /\ sobs = [op |-> "none", pre |-> SimpleFilters(SFDefault), out |-> << >>,
               calls |-> 0]
    /\ pk = NoSearch
    /\ \E subject \in {Ok(v) : v \in Values} \cup {Err(e) : e \in Errors}
                          \cup {Some(v) : v \in Values} \cup {None} :
          monad = [NoValue EXCEPT !.subject = subject]

\* the state after an operation that returned the object out
Chained(op, func, r) ==
    [monad EXCEPT !.subject = r.out, !.self = monad.subject, !.op = op,
                  !.func = func, !.invoked = r.invoked, !.ops = @ + 1]

\* the state after an unwrap_or that returned the value returned
Unwrapped(op, default_value, returned) ==
    [monad EXCEPT !.self = monad.subject, !.op = op, !.func = "none",
                  !.invoked = 0, !.default_value = default_value,
                  !.returned = returned, !.ops = @ + 1]

MonadFrame ==
    UNCHANGED <<capture, analyzer, roundtrip, frequency, legacy, sf, sobs, pk>>

ResultMap ==
    /\ monad.subject.kind = "Result" /\ monad.ops < MaxOps
    /\ \E func \in MapFuncs :
          monad' = Chained("Result::map", func, Result_map(monad.subject, func))
    /\ MonadFrame

ResultAndThen ==
    /\ monad.subject.kind = "Result" /\ monad.ops < MaxOps
    /\ \E func \in ResultFuncs :
          monad' = Chained("Result::and_then", func,
                           Result_and_then(monad.subject, func))
    /\ MonadFrame

ResultUnwrapOr ==
    /\ monad.subject.kind = "Result" /\ monad.ops < MaxOps
    /\ \E default_value \in Defaults :
          monad' = Unwrapped("Result::unwrap_or", default_value,
                             Result_unwrap_or(monad.subject, default_value))
    /\ MonadFrame

OptionMap ==
    /\ monad.subject.kind = "Option" /\ monad.ops < MaxOps
    /\ \E func \in MapFuncs :
          monad' = Chained("Option::map", func, Option_map(monad.subject, func))
    /\ MonadFrame

OptionAndThen ==
    /\ monad.subject.kind = "Option" /\ monad.ops < MaxOps
    /\ \E func \in OptionFuncs :
          monad' = Chained("Option::and_then", func,
                           Option_and_then(monad.subject, func))
    /\ MonadFrame

OptionUnwrapOr ==
    /\ monad.subject.kind = "Option" /\ monad.ops < MaxOps
    /\ \E default_value \in Defaults :
          monad' = Unwrapped("Option::unwrap_or", default_value,
                             Option_unwrap_or(monad.subject, default_value))
    /\ MonadFrame

NextMonad ==
    \/ ResultMap \/ ResultAndThen \/ ResultUnwrapOr
    \/ OptionMap \/ OptionAndThen \/ OptionUnwrapOr

SpecMonad == InitMonad /\ [][NextMonad]_vars

\* C31: map and and_then on an Err Result, and on a None Option, do not
\* invoke the function and return the same error, respectively None; on Ok
\* and Some they invoke it once on the value and return Ok/Some of the
\* result (map) or the function's own result (and_then); unwrap_or returns
\* the default for Err and None and the held value for Ok and Some.
C31_MonadicOps ==
    LET self == monad.self
        out == monad.subject
    IN  /\ monad.op \in {"Result::map", "Result::and_then"} /\ ~self.is_ok_ =>
              /\ monad.invoked = 0
              /\ ~out.is_ok_ /\ out.value_.index = 1
              /\ out.value_.error = self.value_.error
        /\ monad.op = "Result::map" /\ self.is_ok_ =>
              /\ monad.invoked = 1
              /\ out.is_ok_ /\ out.value_.index = 0
              /\ out.value_.value = Apply(monad.func, self.value_.value)
        /\ monad.op = "Result::and_then" /\ self.is_ok_ =>
              /\ monad.invoked = 1
              /\ out = ApplyResult(monad.func, self.value_.value)
        /\ monad.op \in {"Option::map", "Option::and_then"}
             /\ ~self.value_.has_value =>
              /\ monad.invoked = 0
              /\ ~out.value_.has_value
        /\ monad.op = "Option::map" /\ self.value_.has_value =>
              /\ monad.invoked = 1
              /\ out.value_.has_value
              /\ out.value_.value = Apply(monad.func, self.value_.value)
        /\ monad.op = "Option::and_then" /\ self.value_.has_value =>
              /\ monad.invoked = 1
              /\ out = ApplyOption(monad.func, self.value_.value)
        /\ monad.op = "Result::unwrap_or" =>
              monad.returned = (IF self.is_ok_ THEN self.value_.value
                                ELSE monad.default_value)
        /\ monad.op = "Option::unwrap_or" =>
              monad.returned = (IF self.value_.has_value THEN self.value_.value
                                ELSE monad.default_value)

\* a chain Err(e).map(f).and_then(g).unwrap_or(99) that returned 99
C31_Witness ==
    /\ monad.op = "Result::unwrap_or"
    /\ monad.ops = MaxOps
    /\ ~monad.self.is_ok_
    /\ monad.self.value_.error = "error"
    /\ monad.default_value = 99
    /\ monad.returned = 99

(***************************************************************************)
(* Sample accounting of a capture session (SpecCallback)                   *)
(***************************************************************************)
\* C35: whenever no producer callback is in progress, total_samples_captured
\* equals the number of samples stored into the ring buffer, which equals
\* the number of samples returned by read_samples plus available_samples(),
\* in mono and in stereo mode.
C35_TotalIsStoredIsReadPlusAvailable ==
    CallbacksCompleted =>
        /\ stats.total_samples_ = Len(accepted)
        /\ Len(accepted) = Len(received) + available_read(ring)

\* the same accounting for a session that converts to mono
C35_MonoAccounting ==
    (config_.convert_to_mono /\ CallbacksCompleted) =>
        /\ stats.total_samples_ = Len(accepted)
        /\ Len(accepted) = Len(received) + available_read(ring)

\* what is stored is read or still available, in both modes
C35_StoredIsReadPlusAvailable ==
    Len(accepted) = Len(received) + available_read(ring)

\* C38: buffer_capacity in get_stats() is the capacity of the ring buffer
\* the session writes to, so available_samples <= buffer_capacity - 1 in
\* every Stats value, also for a session made by create_audio_capture.
C38_CapacityBoundsAvailable ==
    last.op = "get_stats" =>
        /\ last.count = Capacity
        /\ last.n <= last.count - 1

\* the second half alone: no Stats value reports more available samples
\* than buffer_capacity - 1
C38_AvailableBelowReported ==
    last.op = "get_stats" => last.n <= last.count - 1

\* C39: is_capturing() is true exactly while a capture loop started by
\* start() is running: it is false before start(), after stop(), and once
\* the loop has ended by itself on an initialisation or read error.
C39_CapturingWhileLoopRuns ==
    (m.pc = "idle" /\ Alive) => (capturing_ <=> t.st = "running")

\* the first two cases alone: false before start() and after stop()
C39_FalseWhenNotStarted ==
    (m.pc = "idle" /\ Alive /\ (hist.spawned = 0 \/ hist.stopped)) => ~capturing_

(***************************************************************************)
(* The no-match timeout of the reference (SpecPLA)                         *)
(***************************************************************************)
\* C34: the no-match timeout invalidates the reference only after more than
\* NO_MATCH_FRAMES (480) analyze(true) calls in a row whose best correlation
\* was not above the threshold: a call that returns has_lock = true does not
\* count toward the timeout (frames_since_good_match_ does not grow) and
\* does not lose the reference.
C34_LockNeverCountsTowardTimeout ==
    [][(obs'.op = "analyze" /\ obs'.enabled /\ obs'.state.has_lock
           /\ Analyze(TRUE)) =>
          /\ pla'.frames_since_good_match_ <= pla.frames_since_good_match_
          /\ pla'.has_reference_]_vars

\* the last part alone: a call that returns has_lock = true leaves the
\* analyzer with a reference
C34_LockKeepsReference ==
    [][(obs'.op = "analyze" /\ obs'.enabled /\ obs'.state.has_lock
           /\ Analyze(TRUE)) => pla'.has_reference_]_vars

\* a call without a lock always counts, and the timeout fires only on more
\* than NO_MATCH_FRAMES counted calls
C34_TimeoutAfterCountedCalls ==
    [][(obs'.op = "analyze" /\ obs'.enabled /\ Analyze(TRUE)) =>
          /\ ~obs'.state.has_lock =>
                \/ pla'.frames_since_good_match_ = pla.frames_since_good_match_ + 1
                \/ ~pla'.has_reference_
          /\ ~pla'.has_reference_ => pla.frames_since_good_match_ >= NO_MATCH_FRAMES]_vars

(***************************************************************************)
(* Index safety of the analyzer's buffers (SpecPLA)                        *)
(***************************************************************************)
\* the write position and the cursors lie in 0 .. phase_buffer_size - 1 and
\* the buffers have the lengths of the configuration in effect
PositionsInRange ==
    LET size == pla.config_.phase_buffer_size
    IN  /\ pla.phase_write_pos_ \in 0 .. (size - 1)
        /\ pla.phase_offset_ \in 0 .. (size - 1)
        /\ pla.target_phase_offset_ \in 0 .. (size - 1)
        /\ (obs.op = "analyze") => obs.state.read_position \in 0 .. (size - 1)
        /\ DOMAIN pla.phase_buffer_ = 0 .. (size - 1)
        /\ DOMAIN pla.reference_window_
              = 0 .. (pla.config_.correlation_window_size - 1)

\* C33: for any sequence of add_samples, analyze, reset and set_config,
\* including set_config calls that shrink or grow phase_buffer_size or
\* correlation_window_size, the write position and every returned
\* read_position lie in [0, phase_buffer_size) and every buffer access is
\* below the allocated length of that buffer.
C33_IndexSafety == PositionsInRange /\ ~obs.overflow

\* the positions alone
C33_PositionsInRange == PositionsInRange

(***************************************************************************)
(* Convergence of the smoothed read cursor (SpecPLA)                       *)
(***************************************************************************)
\* the circular distance between the positions x and y of a buffer of
\* `size` elements
CircularDistance(x, y, size) == Min((x - y) % size, (y - x) % size)

\* an analyze(true) step that is not the first update, made with no samples
\* added since the previous call and computing the target of that call
FixedTargetStep ==
    /\ obs'.op = "analyze" /\ obs'.enabled
    /\ obs.op = "analyze" /\ obs.enabled
    /\ pla'.target_phase_offset_ = pla.target_phase_offset_
    /\ pla'.config_ = pla.config_
    /\ pla.config_.phase_smoothing < One

\* the step does not carry the cursor past the target and does not
\* increase its circular distance to the target
NoOvershoot ==
    LET size == pla.config_.phase_buffer_size
        target == pla.target_phase_offset_
        before == PhaseDiff(target, pla.phase_offset_, size)
        after == PhaseDiff(target, pla'.phase_offset_, size)
    IN  /\ CircularDistance(pla'.phase_offset_, target, size)
              <= CircularDistance(pla.phase_offset_, target, size)
        /\ before * after >= 0 \/ Abs(before) = size \div 2

\* the step brings a cursor that is not at the target nearer to it
Progress ==
    LET size == pla.config_.phase_buffer_size
        target == pla.target_phase_offset_
    IN  pla.phase_offset_ /= target =>
            CircularDistance(pla'.phase_offset_, target, size)
                < CircularDistance(pla.phase_offset_, target, size)

\* C36: with no samples added and the target fixed, repeated analyze(true)
\* calls with phase_smoothing in [0, 1) never move the cursor past the
\* target, never increase its circular distance to the target, and the
\* cursor eventually equals the target: analyze is a function of the
\* analyzer's members, so the cursor reaches the target exactly when every
\* such call brings a cursor that is not there nearer to it.
C36_CursorReachesTarget ==
    [][(FixedTargetStep /\ Analyze(TRUE)) => (NoOvershoot /\ Progress)]_vars

\* the first two parts alone
C36_NoOvershoot ==
    [][(FixedTargetStep /\ Analyze(TRUE)) => NoOvershoot]_vars

====
